---------------------------- MODULE Spec2Model ----------------------------
(***************************************************************************)
(* Shift-block consolidation and tariff computation of the four partner    *)
(* calculators (Veratour, Alpitour, Aliservice, Rusconi): process_files    *)
(* and the helpers it calls.                                               *)
(*                                                                         *)
(* Texts are sequences of one-character strings.  Three glyphs that are    *)
(* not ASCII are written as named atoms: EN_DASH, EM_DASH, MINUS_SIGN.     *)
(* Timestamps are minutes since 2025-12-01 00:00, all dates being days of  *)
(* December 2025.  Amounts are integers counted in millionths of a euro.   *)
(***************************************************************************)
EXTENDS Integers, Sequences, FiniteSets, TLC

-----------------------------------------------------------------------------
(* Characters                                                              *)

EN_DASH == "EN_DASH"
EM_DASH == "EM_DASH"
MINUS_SIGN == "MINUS_SIGN"

DIGITS == {"0", "1", "2", "3", "4", "5", "6", "7", "8", "9"}
\* \w, on the letters the texts in use are made of
WORD_CHARS ==
    DIGITS \cup {"_", "A", "B", "C", "D", "E", "F", "I", "N", "O", "S", "T", "V", "X",
                 "a", "b", "c", "d", "e", "f", "i", "n", "o", "s", "t", "v", "x"}
\* \s
SPACES == {" "}

DigitChar(n) == <<"0", "1", "2", "3", "4", "5", "6", "7", "8", "9">>[n + 1]
\* the value int() gives a digit
DigitVal(c) == CHOOSE n \in 0..9 : DigitChar(n) = c

\* case folding of str.upper(), str.lower() and re.IGNORECASE, on the letters in use
Upper(c) ==
    CASE c = "a" -> "A" [] c = "b" -> "B" [] c = "c" -> "C" [] c = "d" -> "D"
      [] c = "e" -> "E" [] c = "f" -> "F" [] c = "i" -> "I" [] c = "n" -> "N"
      [] c = "o" -> "O" [] c = "s" -> "S" [] c = "t" -> "T" [] c = "v" -> "V"
      [] c = "x" -> "X" [] OTHER -> c

upper(s) == [k \in 1..Len(s) |-> Upper(s[k])]

RECURSIVE ToInt(_)
\* int(s) for a string of digits
ToInt(s) ==
    IF Len(s) = 0 THEN 0
    ELSE 10 * ToInt(SubSeq(s, 1, Len(s) - 1)) + DigitVal(s[Len(s)])

\* the format spec {n:02d}
Fmt02(n) ==
    IF n < 10 THEN <<"0", DigitChar(n)>>
    ELSE IF n < 100 THEN <<DigitChar(n \div 10), DigitChar(n % 10)>>
    ELSE <<DigitChar(n \div 100), DigitChar((n \div 10) % 10), DigitChar(n % 10)>>

-----------------------------------------------------------------------------
(* Regular expressions: the part of Python's re the calculators use.       *)
(* A pattern is a tree of records; Match lists the ways a pattern matches  *)
(* at an offset in backtracking order, so its head is re's answer.         *)

Cls(S) == [t |-> "cls", s |-> S]
Lit(c) == Cls({c})
Cat(a) == [t |-> "cat", a |-> a]
Rep(r, lo, hi) == [t |-> "rep", r |-> r, lo |-> lo, hi |-> hi]
Star(r) == Rep(r, 0, 64)
Plus(r) == Rep(r, 1, 64)
Grp(n, r) == [t |-> "grp", n |-> n, r |-> r]
Alt(a) == [t |-> "alt", a |-> a]
WordB == [t |-> "wb"]
Bos == [t |-> "bos"]

\* no group has taken part yet
NoCaps == [g \in 1..4 |-> <<-1, -1>>]

IsWordAt(s, i) == i >= 1 /\ i <= Len(s) /\ s[i] \in WORD_CHARS

RECURSIVE Match(_, _, _, _, _), MatchCat(_, _, _, _, _, _),
          MatchRep(_, _, _, _, _, _, _, _), MatchAlt(_, _, _, _, _, _),
          Then(_, _, _, _, _, _), ThenRep(_, _, _, _, _, _, _, _, _)

\* r at offset i of s (the next character is s[i+1]); fold is re.IGNORECASE
Match(r, s, i, caps, fold) ==
    CASE r.t = "cls" ->
           IF i < Len(s) /\ (IF fold THEN Upper(s[i + 1]) ELSE s[i + 1]) \in r.s
           THEN << <<i + 1, caps>> >> ELSE << >>
      [] r.t = "cat" -> MatchCat(r.a, 1, s, i, caps, fold)
      [] r.t = "rep" -> MatchRep(r.r, r.lo, r.hi, 0, s, i, caps, fold)
      [] r.t = "grp" ->
           LET inner == Match(r.r, s, i, caps, fold)
           IN  [k \in 1..Len(inner) |->
                  <<inner[k][1], [inner[k][2] EXCEPT ![r.n] = <<i, inner[k][1]>>]>>]
      [] r.t = "alt" -> MatchAlt(r.a, 1, s, i, caps, fold)
      [] r.t = "wb" ->
           IF IsWordAt(s, i) # IsWordAt(s, i + 1)
           THEN << <<i, caps>> >> ELSE << >>
      [] r.t = "bos" -> IF i = 0 THEN << <<i, caps>> >> ELSE << >>

\* continue the concatenation a from its k-th part, for each way ms[j] the part before matched
Then(ms, j, a, k, s, fold) ==
    IF j > Len(ms) THEN << >>
    ELSE MatchCat(a, k, s, ms[j][1], ms[j][2], fold) \o Then(ms, j + 1, a, k, s, fold)

MatchCat(a, k, s, i, caps, fold) ==
    IF k > Len(a) THEN << <<i, caps>> >>
    ELSE Then(Match(a[k], s, i, caps, fold), 1, a, k + 1, s, fold)

ThenRep(ms, j, r, lo, hi, n, s, i, fold) ==
    IF j > Len(ms) THEN << >>
    ELSE (IF ms[j][1] > i
          THEN MatchRep(r, lo, hi, n, s, ms[j][1], ms[j][2], fold)
          ELSE << >>)
         \o ThenRep(ms, j + 1, r, lo, hi, n, s, i, fold)

\* greedy: one more repetition first, then stopping here
MatchRep(r, lo, hi, n, s, i, caps, fold) ==
    (IF n < hi
     THEN ThenRep(Match(r, s, i, caps, fold), 1, r, lo, hi, n + 1, s, i, fold)
     ELSE << >>)
    \o (IF n >= lo THEN << <<i, caps>> >> ELSE << >>)

MatchAlt(a, k, s, i, caps, fold) ==
    IF k > Len(a) THEN << >>
    ELSE Match(a[k], s, i, caps, fold) \o MatchAlt(a, k + 1, s, i, caps, fold)

RECURSIVE SearchFrom(_, _, _, _)
\* the leftmost match at or after offset i
SearchFrom(r, s, i, fold) ==
    IF i > Len(s) THEN [found |-> FALSE, start |-> 0, end |-> 0, caps |-> NoCaps]
    ELSE LET ms == Match(r, s, i, NoCaps, fold)
         IN  IF Len(ms) = 0 THEN SearchFrom(r, s, i + 1, fold)
             ELSE [found |-> TRUE, start |-> i, end |-> ms[1][1], caps |-> ms[1][2]]

re_search(r, s, fold) == SearchFrom(r, s, 0, fold)

\* re.match: at the start of s only
re_match(r, s, fold) == SearchFrom(Cat(<<Bos, r>>), s, 0, fold)

HasGroup(m, g) == m.caps[g][1] >= 0

\* m.group(g): the text of group g, << >> standing for both None and ""
Group(s, m, g) ==
    IF HasGroup(m, g) THEN SubSeq(s, m.caps[g][1] + 1, m.caps[g][2]) ELSE << >>

\* a replacement template: characters, and REF1, REF2 for the back-references \1, \2
REF1 == "REF1"
REF2 == "REF2"

RECURSIVE Expand(_, _, _)
Expand(repl, s, m) ==
    IF Len(repl) = 0 THEN << >>
    ELSE (CASE Head(repl) = REF1 -> Group(s, m, 1)
            [] Head(repl) = REF2 -> Group(s, m, 2)
            [] OTHER -> <<Head(repl)>>)
         \o Expand(Tail(repl), s, m)

RECURSIVE SubFrom(_, _, _, _, _)
SubFrom(r, repl, s, i, fold) ==
    LET m == SearchFrom(r, s, i, fold)
    IN  IF ~m.found \/ m.end = m.start THEN SubSeq(s, i + 1, Len(s))
        ELSE SubSeq(s, i + 1, m.start) \o Expand(repl, s, m)
             \o SubFrom(r, repl, s, m.end, fold)

\* re.sub for patterns that match no empty string
re_sub(r, repl, s, fold) == SubFrom(r, repl, s, 0, fold)

-----------------------------------------------------------------------------
(* Cell values and the text helpers                                        *)

\* an empty cell as pandas reads it, and Python's None, as texts no input equals
NaN == <<"NaN">>
None == <<"None">>

\* str(x) of a cell: a text is itself, an empty cell reads "nan"
str(x) == IF x = NaN THEN <<"n", "a", "n">> ELSE x

RECURSIVE lstrip(_)
lstrip(s) == IF Len(s) > 0 /\ Head(s) \in SPACES THEN lstrip(Tail(s)) ELSE s

RECURSIVE rstrip(_)
rstrip(s) ==
    IF Len(s) > 0 /\ s[Len(s)] \in SPACES THEN rstrip(SubSeq(s, 1, Len(s) - 1)) ELSE s

strip(s) == rstrip(lstrip(s))

\* str.replace(a, b) for one character a
Replace(s, a, b) == [k \in 1..Len(s) |-> IF s[k] = a THEN b ELSE s[k]]

normalize_spaces(s) == re_sub(Plus(Cls(SPACES)), <<" ">>, strip(s), FALSE)

normalize_hyphens(s) ==
    [k \in 1..Len(s) |-> IF s[k] \in {EN_DASH, EM_DASH, MINUS_SIGN} THEN "-" ELSE s[k]]

-----------------------------------------------------------------------------
(* parse_turno, Veratour and Alpitour                                      *)

\* \d{1,2} and \s*
Digits12 == Rep(Cls(DIGITS), 1, 2)
Blanks == Star(Cls(SPACES))

TIME_SEP_PATTERN == Cls({"-", EN_DASH, EM_DASH})

\* (?:(\d{1,2})(?:[:\.](\d{1,2}))?) with its two groups numbered g1, g2
TIME_TOKEN(g1, g2) ==
    Cat(<<Grp(g1, Digits12), Rep(Cat(<<Cls({":", "."}), Grp(g2, Digits12)>>), 0, 1)>>)

TIME_RANGE_RE == Cat(<<TIME_TOKEN(1, 2), Blanks, TIME_SEP_PATTERN, Blanks, TIME_TOKEN(3, 4)>>)

\* \bno\s*dec\b, matched with re.IGNORECASE
NO_DEC_RE == Cat(<<WordB, Lit("N"), Lit("O"), Blanks, Lit("D"), Lit("E"), Lit("C"), WordB>>)

\* the result tuple of parse_turno
Parsed(start, end, no_dec, norm) ==
    [start_str |-> start, end_str |-> end, no_dec |-> no_dec, turno_norm |-> norm]

\* f"{h:02d}:{m:02d}" of int(m.group(gh)) and of int(m.group(gm)), 0 when that group is None
hhmm_str(s, m, gh, gm) ==
    Fmt02(ToInt(Group(s, m, gh))) \o <<":">> \o Fmt02(ToInt(Group(s, m, gm)))

\* the tail of both branches: the normalized range put in place of the match
Renormalize(s2, m, start, end, no_dec) ==
    LET s_norm == normalize_spaces(SubSeq(s2, 1, m.start) \o start \o <<"-">> \o end
                                   \o SubSeq(s2, m.end + 1, Len(s2)))
    IN  Parsed(start, end, no_dec,
               IF no_dec
               THEN re_sub(NO_DEC_RE, <<"N", "O", " ", "D", "E", "C">>, s_norm, TRUE)
               ELSE s_norm)

parse_turno_veratour(turno_raw) ==
    LET s == normalize_spaces(IF turno_raw = None THEN << >> ELSE str(turno_raw))
        no_dec == re_search(NO_DEC_RE, s, TRUE).found
        \* (\d{1,2}:\d{1,2})\.(\d{1,2}:\d{1,2})
        dotted == Cat(<<Grp(1, Cat(<<Digits12, Lit(":"), Digits12>>)), Lit("."),
                        Grp(2, Cat(<<Digits12, Lit(":"), Digits12>>))>>)
        s2 == Replace(re_sub(dotted, <<REF1, "-", REF2>>, normalize_hyphens(s), FALSE),
                      ".", ":")
        m == re_search(TIME_RANGE_RE, s2, TRUE)
    IN  IF ~m.found THEN Parsed(None, None, no_dec, s2)
        ELSE Renormalize(s2, m, hhmm_str(s2, m, 1, 2), hhmm_str(s2, m, 3, 4), no_dec)

parse_turno_alpitour(turno_raw) ==
    LET s == normalize_spaces(IF turno_raw = None THEN << >> ELSE str(turno_raw))
        no_dec == re_search(NO_DEC_RE, s, TRUE).found
        \* (\d{1,2}[:;]\d{1,2})[\.;](\d{1,2}[:;]\d{1,2})
        dotted == Cat(<<Grp(1, Cat(<<Digits12, Cls({":", ";"}), Digits12>>)), Cls({".", ";"}),
                        Grp(2, Cat(<<Digits12, Cls({":", ";"}), Digits12>>))>>)
        s2 == Replace(Replace(re_sub(dotted, <<REF1, "-", REF2>>, normalize_hyphens(s), FALSE),
                              ".", ":"), ";", ":")
        m == re_search(TIME_RANGE_RE, s2, TRUE)
        \* single_time_pattern: a range that was opened and never closed
        m_single == re_search(Cat(<<TIME_TOKEN(1, 2), Blanks, TIME_SEP_PATTERN>>), s2, TRUE)
    IN  IF m.found
        THEN Renormalize(s2, m, hhmm_str(s2, m, 1, 2), hhmm_str(s2, m, 3, 4), no_dec)
        ELSE IF m_single.found
        THEN Renormalize(s2, m_single, hhmm_str(s2, m_single, 1, 2),
                         <<"0", "0", ":", "0", "0">>, no_dec)
        ELSE Parsed(None, None, no_dec, s2)

-----------------------------------------------------------------------------
(* parse_turno, Aliservice; Rusconi's is the same text                     *)

\* the four shapes in the order the loop tries them, each with its len(m.groups())
patterns ==
    LET sep == Cat(<<Blanks, TIME_SEP_PATTERN, Blanks>>)
        dot == Cls({".", ":"})
        d2 == Rep(Cls(DIGITS), 2, 2)
    IN  << [re |-> Cat(<<Grp(1, Digits12), dot, Grp(2, d2), sep,
                         Grp(3, Digits12), dot, Grp(4, d2)>>), n |-> 4],
           [re |-> Cat(<<Grp(1, Digits12), sep, Grp(2, Digits12), dot, Grp(3, d2)>>), n |-> 3],
           [re |-> Cat(<<Grp(1, Digits12), dot, Grp(2, d2), sep, Grp(3, Digits12)>>), n |-> 3],
           [re |-> Cat(<<Grp(1, Digits12), sep, Grp(2, Digits12)>>), n |-> 2] >>

\* h1, m1, h2, m2 as the body of the loop assigns them from m.groups()
groups_to_times(s, m, n) ==
    LET g(k) == ToInt(Group(s, m, k))
    IN  IF n = 4 THEN <<g(1), g(2), g(3), g(4)>>
        ELSE IF n = 3
        THEN IF (\E k \in 1..Len(s) : s[k] \in {":", "."}) /\ Len(Group(s, m, 2)) = 2
             THEN <<g(1), g(2), g(3), 0>>
             ELSE <<g(1), 0, g(2), g(3)>>
        ELSE <<g(1), 0, g(2), 0>>

RECURSIVE try_patterns(_, _, _)
try_patterns(s, k, no_dec) ==
    IF k > Len(patterns) THEN Parsed(None, None, no_dec, s)
    ELSE LET m == re_match(patterns[k].re, s, FALSE)
             t == groups_to_times(s, m, patterns[k].n)
         IN  IF m.found /\ t[1] <= 23 /\ t[2] <= 59 /\ t[3] <= 47 /\ t[4] <= 59
             THEN LET start_str == Fmt02(t[1]) \o <<":">> \o Fmt02(t[2])
                      end_str == Fmt02(t[3] % 24) \o <<":">> \o Fmt02(t[4])
                  IN  Parsed(start_str, end_str, no_dec, start_str \o <<"-">> \o end_str)
             ELSE try_patterns(s, k + 1, no_dec)

parse_turno_aliservice(turno_raw) ==
    IF turno_raw = None \/ turno_raw = << >> \/ turno_raw = NaN
    THEN Parsed(None, None, FALSE, << >>)
    ELSE LET s0 == normalize_spaces(turno_raw)
             nodec(gap) == Cat(<<Lit("N"), Lit("O")>> \o gap \o <<Lit("D"), Lit("E"), Lit("C")>>)
             \* "NO DEC" in s.upper() or "NODEC" in s.upper()
             no_dec == re_search(nodec(<<Lit(" ")>>), upper(s0), FALSE).found
                       \/ re_search(nodec(<< >>), upper(s0), FALSE).found
             \* (?i)no\s*dec
             s1 == strip(re_sub(nodec(<<Blanks>>), << >>, s0, TRUE))
             \* ^(SC\d+|SC\s*\d+)\s*
             sc == Cat(<<Bos, Alt(<<Cat(<<Lit("S"), Lit("C"), Plus(Cls(DIGITS))>>),
                                    Cat(<<Lit("S"), Lit("C"), Blanks, Plus(Cls(DIGITS))>>)>>),
                         Blanks>>)
         IN  IF s0 = << >> THEN Parsed(None, None, FALSE, << >>)
             ELSE try_patterns(strip(re_sub(sc, << >>, s1, TRUE)), 1, no_dec)

-----------------------------------------------------------------------------
(* Dates, times and amounts                                                *)

MinutesPerDay == 24 * 60

\* the Timestamp of midnight of day dd of December 2025
Midnight(dd) == (dd - 1) * MinutesPerDay

\* Timestamp.normalize()
normalize(dt) == (dt \div MinutesPerDay) * MinutesPerDay

\* Timestamp.date(), as the day of the month
date_of(dt) == (dt \div MinutesPerDay) + 1

\* Timestamp.hour
hour_of(dt) == (dt % MinutesPerDay) \div 60

\* pd.NaT, and None where a Timestamp is expected; every comparison with NaT is False
NaT == 0 - 1
lt(a, b) == a # NaT /\ b # NaT /\ a < b

Max2(a, b) == IF a >= b THEN a ELSE b
Min2(a, b) == IF a <= b THEN a ELSE b

RECURSIVE max(_)
\* max() of a non-empty list
max(xs) == IF Len(xs) = 1 THEN xs[1] ELSE Max2(xs[1], max(Tail(xs)))

\* one euro in amount units
EUR == 1000 * 1000

\* amount * multiplier, the multiplier given in hundredths (1.20 is 120)
times(x, pct) == (x \div 100) * pct + ((x % 100) * pct) \div 100

\* round(x, 2) of an amount: to the nearest cent.  An exact half goes to the even cent;
\* no amount formed from the rows in use falls on one.
round2(x) ==
    LET cent == EUR \div 100
        q == x \div cent
        r == x % cent
    IN  IF 2 * r < cent \/ (2 * r = cent /\ q % 2 = 0) THEN q * cent ELSE (q + 1) * cent

\* <<hh, mm>> of a string "HH:MM" as map(int, hhmm.split(":")) reads it
split_hhmm(hhmm) ==
    LET colon == CHOOSE k \in 1..Len(hhmm) : hhmm[k] = ":"
    IN  <<ToInt(SubSeq(hhmm, 1, colon - 1)), ToInt(SubSeq(hhmm, colon + 1, Len(hhmm)))>>

\* hh hours and mm minutes, in minutes
Timedelta(hh_mm) == hh_mm[1] * 60 + hh_mm[2]

\* Veratour, Alpitour: d + Timedelta(hours=hh, minutes=mm), whatever hh and mm are
to_dt(d, hhmm) == d + Timedelta(split_hhmm(hhmm))

\* Aliservice, Rusconi: date_val.replace(hour=h, minute=m); parse_turno has bounded h and m
to_dt_replace(date_val, time_str) == normalize(date_val) + Timedelta(split_hhmm(time_str))

\* a step that is not positive taken as the default of 5: what C27 is checked against
apply_default_step(policy, minutes) ==
    LET step == IF policy.step_min <= 0 THEN 5 ELSE policy.step_min
    IN  CASE policy.mode = "FLOOR" -> (minutes \div step) * step
          [] policy.mode = "CEIL" -> ((minutes + step - 1) \div step) * step
          [] policy.mode = "NEAREST" -> ((2 * minutes + step) \div (2 * step)) * step
          [] OTHER -> minutes

\* RoundingPolicy.apply, the policy a record of mode and step_min
apply(policy, minutes) ==
    LET step == policy.step_min
        q == minutes \div step
        r == minutes % step
    IN  IF policy.mode = "NONE" \/ step <= 0 THEN minutes
        ELSE CASE policy.mode = "FLOOR" -> q * step
               [] policy.mode = "CEIL" -> (IF r = 0 THEN q ELSE q + 1) * step
               [] policy.mode = "NEAREST" ->
                    \* np.round: an exact half goes to the even multiple
                    (IF 2 * r < step \/ (2 * r = step /\ q % 2 = 0) THEN q ELSE q + 1) * step
               [] OTHER -> minutes

-----------------------------------------------------------------------------
(* Night minutes                                                           *)

\* the three-night sweep of Veratour and Alpitour: nights from 23:00 to end_hour
NightSweep(interval_start, interval_end, end_hour) ==
    IF interval_end <= interval_start THEN 0
    ELSE LET base == normalize(interval_start) - MinutesPerDay
             win(k) ==
                 LET s == Max2(interval_start, base + k * MinutesPerDay + 23 * 60)
                     e == Min2(interval_end, base + (k + 1) * MinutesPerDay + end_hour * 60)
                 IN  IF e > s THEN e - s ELSE 0
         IN  win(0) + win(1) + win(2)

night_minutes_veratour(interval_start, interval_end) ==
    NightSweep(interval_start, interval_end, 5)

\* every minute of the interval taken as a night minute: what C14 is checked against
night_minutes_whole(interval_start, interval_end) ==
    IF interval_end <= interval_start THEN 0 ELSE interval_end - interval_start

\* the overlap taken on the clock time of the end, whatever its day: what C15 is checked
\* against
night_minutes_clock(interval_start, interval_end) ==
    NightSweep(interval_start, normalize(interval_start) + (interval_end % MinutesPerDay), 6)

night_minutes_alpitour(interval_start, interval_end) ==
    NightSweep(interval_start, interval_end, 6)

\* the minute-by-minute loop of Aliservice: 23:00-03:30
night_minutes_aliservice(start_dt, end_dt) ==
    IF start_dt = NaT \/ end_dt = NaT \/ start_dt >= end_dt THEN 0
    ELSE Cardinality({current \in start_dt..(end_dt - 1) :
            \/ hour_of(current) = 23
            \/ hour_of(current) < 3
            \/ hour_of(current) = 3 /\ current % 60 < 30})

\* the minute-by-minute loop of Rusconi: 22:00-06:00
night_minutes_rusconi(start_dt, end_dt) ==
    IF start_dt = NaT \/ end_dt = NaT \/ start_dt >= end_dt THEN 0
    ELSE Cardinality({current \in start_dt..(end_dt - 1) :
            hour_of(current) >= 22 \/ hour_of(current) < 6})

-----------------------------------------------------------------------------
(* Tariffs, with the defaults of each CalcConfig                           *)

\* base_3h_eur 75, over_3h_rate_per_h 15
compute_turno_eur_veratour(durata_min) ==
    75 * EUR + Max2(0, durata_min - 3 * 60) * ((15 * EUR) \div 60)

compute_extra_min_veratour(atd_sel, end_dt, no_dec) ==
    IF no_dec \/ atd_sel = NaT THEN 0
    ELSE IF atd_sel <= end_dt THEN 0
    ELSE atd_sel - end_dt

\* night_mode DIFF5: night_diff_eur_per_min 0.083333
compute_night_eur_veratour(night_min) == night_min * 83333

\* rates[h] of get_turno_rates(apt), h in 3..8
get_turno_rates(apt, h) == ((IF apt = "VRN" THEN 80 ELSE 75) + (h - 3) * 15) * EUR

\* over_3h_rate_per_h 15; abs(durata_h - durata_h_int) < 0.01 only on a whole hour
compute_turno_eur_alpitour(durata_min, apt) ==
    IF durata_min % 60 = 0 /\ durata_min \div 60 \in 3..8
    THEN get_turno_rates(apt, durata_min \div 60)
    ELSE IF durata_min <= 3 * 60 THEN get_turno_rates(apt, 3)
    ELSE get_turno_rates(apt, 3) + (durata_min - 3 * 60) * ((15 * EUR) \div 60)

\* overtime without the window after the departure: what C13 is checked against
compute_extra_min_no_window(atd_sel, end_dt, no_dec) ==
    IF no_dec \/ atd_sel = NaT \/ atd_sel <= end_dt THEN 0 ELSE atd_sel - end_dt

\* overtime without the clamp at zero: what C19 is checked against
compute_extra_min_unclamped(atd_sel, end_dt, no_dec) ==
    IF no_dec \/ atd_sel = NaT THEN 0 ELSE atd_sel + 30 - end_dt

\* extra_window_minutes 30
compute_extra_min_alpitour(atd_sel, end_dt, no_dec) ==
    IF no_dec \/ atd_sel = NaT THEN 0
    ELSE LET fine_copertura == atd_sel + 30
         IN  IF atd_sel > end_dt THEN fine_copertura - end_dt
             ELSE IF fine_copertura <= end_dt THEN 0
             ELSE fine_copertura - end_dt

\* VRN: 80/3 * 0.15 / 60 euro a minute; otherwise night_eur_per_min 0.0625
compute_night_eur_alpitour(night_min, apt) ==
    IF apt = "VRN" THEN (night_min * EUR) \div 15
    ELSE night_min * ((625 * EUR) \div 10000)

\* TARIFFE_SERVIZI_ALISERVICE[...]["base"]; the service cells in use name a tariff or are empty
compute_turno_eur_aliservice(servizio_tipo, arrivi_trf) ==
    IF arrivi_trf = "M&G" THEN 65 * EUR
    ELSE CASE servizio_tipo = "MICE" -> 65 * EUR
           [] servizio_tipo = "VIP Service" -> 110 * EUR
           [] servizio_tipo = "VIP Gate" -> 130 * EUR
           [] servizio_tipo = "Meet & Greet" -> 65 * EUR
           [] OTHER -> 55 * EUR

\* <<extra_min_raw, extra_min_rounded>>, rounding_extra being CEIL to 5
compute_extra_min_aliservice(end_dt, atd_dt, no_dec) ==
    IF no_dec \/ end_dt = NaT \/ atd_dt = NaT THEN <<0, 0>>
    ELSE IF atd_dt - end_dt <= 0 THEN <<0, 0>>
    ELSE <<atd_dt - end_dt, apply([mode |-> "CEIL", step_min |-> 5], atd_dt - end_dt)>>

compute_extra_eur_aliservice(extra_min) ==
    IF extra_min <= 0 THEN 0 ELSE round2(extra_min * ((15 * EUR) \div 60))

\* 0.031 euro a minute
compute_night_eur_aliservice(night_min) ==
    IF night_min <= 0 THEN 0 ELSE round2(night_min * ((31 * EUR) \div 1000))

\* TARIFFE_BASE_RUSCONI.get(apt_upper, 100.0)
compute_turno_eur_rusconi(apt) == (IF apt \in {"FCO", "VCE"} THEN 110 ELSE 100) * EUR

\* TARIFFA_NOTTE_RUSCONI 0.12
compute_night_eur_rusconi(night_min) == night_min * ((12 * EUR) \div 100)

-----------------------------------------------------------------------------
(* Holidays, and the cells of a row                                        *)

\* the days of December among the dates of get_italian_holidays_2025()
get_italian_holidays_2025 == {8, 25, 26}

\* cfg.holiday_dates is [given |-> FALSE] for None, else the set given
holiday_dates_to_use(cfg_holiday_dates) ==
    IF cfg_holiday_dates.given THEN cfg_holiday_dates.dates ELSE get_italian_holidays_2025

\* the FESTIVO cell of Veratour and Alpitour; s.lower() in (...) read on the upper case
is_truthy_festivo(x) ==
    x # NaN /\ upper(strip(str(x))) \in
        {<<"1">>, <<"T", "R", "U", "E">>, <<"T">>, <<"S", "I">>, <<"Y", "E", "S">>,
         <<"Y">>, <<"X">>}

\* the GIORNO cell of Aliservice, after the row loop made "" of a missing cell
is_festivo_from_giorno(giorno_val) ==
    giorno_val # << >> /\ giorno_val # NaN
    /\ re_search(Cat(<<Lit("F"), Lit("E"), Lit("S"), Lit("T"), Lit("I"), Lit("V"), Lit("O")>>),
                 strip(giorno_val), TRUE).found

\* an ATD or STD cell holds a datetime.time, <<hour, minute>>, or is empty (NaN):
\* extract_atd_candidates and the list built from parse_time_value give the same
extract_atd_candidates(val) == IF val = NaN THEN << >> ELSE <<val>>


\* a numeric cell as the row loop reads it from the row: <<"float", n>> or <<"int", n>>,
\* the Python number iterrows() makes of the value of a column with or without empty
\* cells; NaN when empty.  An amount cell holds n in amount units, a minutes cell n
\* minutes.
Cell(dtype, n) == <<dtype, n>>

\* Optional[float]: None, or the number under "num"
Num(n) == <<"num", n>>

\* parse_eur: float(x) of a number
parse_eur(x) == IF x = NaN THEN None ELSE Num(x[2])

\* parse_minutes_from_cell of a whole number.  The number is tried as a time of day
\* first (parse_time_value): 0 is a fraction of a day, and any other is read through
\* its text, "30" as the hour 30 and "30.0" as "30:0", both <<30 % 24, 0>>, when the
\* hours are at most 47; only a number parse_time_value rejects is taken as minutes.
parse_minutes_from_cell(x) ==
    IF x = NaN THEN None
    ELSE IF x[2] = 0 THEN Num(0)
    ELSE IF x[2] <= 47 THEN Num((x[2] % 24) * 60)
    ELSE Num(x[2])

\* Timestamp.strftime("%d/%m/%Y") of a day of December 2025
strftime(dt) == Fmt02(date_of(dt)) \o <<"/", "1", "2", "/", "2", "0", "2", "5">>

\* pd.to_datetime(..., dayfirst=True).dt.day of a text "dd/mm/yyyy"
to_datetime_day(s) == ToInt(SubSeq(s, 1, 2))
-----------------------------------------------------------------------------
(* The state of one run of process_files                                   *)

Variants == {"veratour", "alpitour", "aliservice", "rusconi"}

\* the rows read in one run, and the sheets they are spread over
MaxRows == 3
MaxSheets == 2

VARIABLES
    variant,        \* which calculator runs
    holiday_dates,  \* cfg.holiday_dates
    dom,            \* which family of input rows the run draws from
    sheet,          \* the ordinal of the sheet being read, over all files
    raw,            \* the rows of that sheet that passed the filters and have a date
    global_order,   \* global_order
    seen,           \* the sheets prepared so far: every row with its forward-filled text
    sdf,            \* sdf as the row loop iterates it
    pos,            \* the row the loop is at
    blocks,         \* blocks, in insertion order
    phase,          \* "read", "rows", "compute", "totals", "done", or "aborted" by an exception
    detail,         \* rows_detail
    is_festivo,     \* Rusconi: the local is_festivo left by an earlier iteration
    rows_discr,     \* rows_discr
    totals_df,      \* totals_df
    calls           \* the calls of night_minutes made on their own, with what they returned

vars == <<variant, holiday_dates, dom, sheet, raw, global_order, seen, sdf, pos, blocks,
          phase, detail, is_festivo, rows_discr, totals_df, calls>>

\* a row of the plan: the cells process_files reads
Row(dd, apt, turno, atd, std, hol) ==
    [date |-> Midnight(dd), apt |-> apt, tour_operator |-> "", servizi |-> "",
     turno |-> turno, atd |-> atd, std |-> std,
     festivo |-> IF hol THEN <<"x">> ELSE NaN,
     giorno |-> IF hol THEN <<"f", "e", "s", "t", "i", "v", "o">> ELSE <<"l", "u", "n">>,
     importo |-> NaN, ore_extra |-> NaN, notturno |-> NaN, convocazione |-> NaN]

\* the families of input rows
Families == {"fill", "merge", "time", "holiday", "anchor", "discr", "period", "checkin",
             "delay"}

\* the rows a run draws from, by family
Rows(d) ==
    LET t0811 == <<"0", "8", "-", "1", "1">>
        nodec == <<"N", "O", " ", "D", "E", "C", " ", "0", "8", "-", "1", "1">>
        abc == <<"a", "b", "c">>
        t0909 == <<"0", "9", "-", "0", "9">>
        open == <<"2", "0", ":", "2", "5", "-">>
        t2202 == <<"2", "2", "-", "0", "2">>
        t3005 == <<"3", "0", "-", "0", "5">>
        night == <<"2", "0", ":", "0", "4", "-", "2", "3", ":", "0", "4">>
        t2200 == <<"2", "2", ":", "0", "0", EN_DASH, "0", "2", ":", "0", "0">>
        t0725 == <<"0", "7", ":", "2", "5", "-", "1", "0", ":", "2", "5">>
        t1240 == <<"0", "8", ":", "0", "0", "-", "1", "2", ":", "4", "0">>
        t1215 == <<"1", "2", "-", "1", "5">>
        t0899 == <<"0", "8", "-", "9", "9">>
        with_provided(r, importo, ore_extra, notturno) ==
            [r EXCEPT !.importo = importo, !.ore_extra = ore_extra, !.notturno = notturno]
    IN  CASE d = "fill" ->
               {Row(dd, "BGY", t, NaN, NaN, FALSE) : dd \in {9, 10}, t \in {t0811, NaN, abc}}
               \cup {Row(9, "BGY", << >>, NaN, NaN, FALSE)}
          [] d = "merge" ->
               {Row(9, "BGY", t, a, <<11, 0>>, FALSE) :
                    t \in {t0811, nodec}, a \in {NaN, <<11, 30>>, <<12, 30>>}}
               \cup {[Row(9, "BGY", t0811, a, <<11, 0>>, FALSE) EXCEPT !.tour_operator = "TO1"] :
                        a \in {<<11, 30>>, <<12, 30>>}}
          [] d = "time" ->
               {Row(9, "BGY", t, NaN, NaN, FALSE) :
                    t \in {t0811, t0909, open, t2202, t3005, t2200, t0899}}
               \cup {Row(9, "BGY", t0811, <<8, 0>>, NaN, FALSE),
                     Row(9, "BGY", t3005, <<5, 0>>, <<7, 0>>, FALSE)}
          [] d = "holiday" ->
               {Row(dd, "BGY", t0811, NaN, <<11, 0>>, h) : dd \in {8, 9}, h \in BOOLEAN}
               \cup {Row(dd, "BGY", night, NaN, <<23, 4>>, h) : dd \in {8, 9}, h \in BOOLEAN}
          [] d = "anchor" ->
               {Row(9, "BGY", t0811, a, NaN, FALSE) :
                    a \in {NaN, <<10, 24>>, <<10, 54>>, <<11, 10>>}}
               \cup {Row(9, "BGY", t0811, a, <<11, 20>>, FALSE) : a \in {NaN, <<10, 24>>}}
               \cup {Row(9, "BGY", t0725, <<10, 24>>, NaN, FALSE),
                     Row(9, "BGY", nodec, <<11, 10>>, NaN, FALSE)}
          [] d = "discr" ->
               {with_provided(Row(9, "BGY", t1240, NaN, NaN, FALSE), i, e, NaN) :
                    i \in {NaN, Cell("float", 95 * EUR), Cell("float", 100 * EUR)},
                    e \in {NaN, Cell("float", 30)}}
               \cup {with_provided(Row(9, "BGY", t1240, NaN, NaN, FALSE), NaN, Cell("int", 60),
                                   Cell("int", 0)),
                     with_provided(Row(9, "nan", t0811, NaN, NaN, FALSE), Cell("float", 95 * EUR),
                                   NaN, NaN)}
          [] d = "period" ->
               {Row(dd, "BGY", t0811, a, <<11, 0>>, FALSE) :
                    dd \in {15, 16}, a \in {NaN, <<11, 30>>}}
               \cup {[Row(dd, "BGY", t0811, <<11, 30>>, <<11, 0>>, FALSE)
                        EXCEPT !.tour_operator = "TO1"] : dd \in {15, 16}}
               \cup {Row(20, "BGY", t2202, NaN, <<2, 0>>, FALSE)}
          [] d = "checkin" ->
               {[Row(9, "BGY", t, NaN, <<11, 0>>, FALSE) EXCEPT !.convocazione = c] :
                    t \in {t0811, NaN, abc}, c \in {NaN, <<7, 45>>, <<9, 0>>}}
          [] d = "delay" ->
               {Row(9, "BGY", t, a, <<9, 0>>, FALSE) :
                    t \in {t0811, t1215}, a \in {NaN, <<9, 30>>, <<10, 30>>}}
               \cup {Row(9, "BGY", t2202, a, <<23, 30>>, FALSE) : a \in {<<23, 50>>, <<0, 15>>}}

\* the holiday lists a run may be configured with, by family
HolidayLists(d) ==
    IF d = "holiday" THEN {[given |-> FALSE, dates |-> {}], [given |-> TRUE, dates |-> {9}]}
    ELSE {[given |-> FALSE, dates |-> {}]}

InitOf(d) ==
    /\ variant \in Variants
    /\ holiday_dates \in HolidayLists(d)
    /\ dom = d
    /\ sheet = 1
    /\ raw = << >>
    /\ global_order = 0
    /\ seen = << >>
    /\ sdf = << >>
    /\ pos = 1
    /\ blocks = << >>
    /\ phase = "read"
    /\ detail = << >>
    /\ is_festivo = "unset"
    /\ rows_discr = << >>
    /\ totals_df = << >>
    /\ calls = << >>

-----------------------------------------------------------------------------
(* Reading a sheet: order, forward fill, parsing, start and end             *)

\* Series.replace("", np.nan)
replace_empty(col) == [k \in DOMAIN col |-> IF col[k] = << >> THEN NaN ELSE col[k]]

\* a fill that carries nothing: what C2 is checked against
ffill_nothing(col, last) == col

\* Series.ffill() over a column whose last value so far is last
RECURSIVE ffill(_, _)
ffill(col, last) ==
    IF col = << >> THEN << >>
    ELSE LET v == IF Head(col) = NaN THEN last ELSE Head(col)
         IN  <<v>> \o ffill(Tail(col), v)

\* a fill that takes no account of the dates: what C3 is checked against
ffill_any_date(col, dates) == ffill(col, NaN)

\* ffill_src.groupby(sdf["__date"]).ffill(): each date's rows are filled on their own
groupby_ffill(col, dates) ==
    [i \in DOMAIN col |->
        LET G[j \in 0..i] ==
                IF j = 0 THEN << >>
                ELSE IF dates[j] = dates[i] THEN Append(G[j - 1], col[j]) ELSE G[j - 1]
        IN  ffill(G[i], NaN)[Len(G[i])]]

\* the column __turno_ffill_raw (Veratour, Alpitour) or __turno_ffill (Aliservice, Rusconi)
turno_ffill(v, rows) ==
    LET ffill_src == replace_empty([k \in DOMAIN rows |-> rows[k].turno])
    IN  IF v \in {"veratour", "alpitour"}
        THEN groupby_ffill(ffill_src, [k \in DOMAIN rows |-> rows[k].date])
        ELSE ffill(ffill_src, NaN)

parse_turno(v, x) ==
    CASE v = "veratour" -> parse_turno_veratour(x)
      [] v = "alpitour" -> parse_turno_alpitour(x)
      [] OTHER -> parse_turno_aliservice(x)

\* the texts the TURNO cells of the explored runs hold
TURNI == UNION {{r.turno : r \in Rows(d)} : d \in Families}

\* .apply(parse_turno): the parse of each text, made once
turno_parsed == [v \in Variants |-> [x \in TURNI \cup {NaN} |-> parse_turno(v, x)]]

\* one row of sdf with the columns process_files adds to it
sdf_row(v, r, i, order, tf) ==
    LET dt(hhmm) == IF hhmm = None THEN NaT
                    ELSE IF v \in {"veratour", "alpitour"} THEN to_dt(r.date, hhmm)
                    ELSE to_dt_replace(r.date, hhmm)
        \* end < start: the shift ends the day after
        overnight(start_dt, end_dt) ==
            IF lt(end_dt, start_dt) THEN end_dt + MinutesPerDay ELSE end_dt
        columns(p, start_dt, end_dt) ==
            [cells |-> r, idx |-> i, sheet_row_order |-> i, global_order |-> order,
             turno_ffill |-> tf, start_str |-> p.start_str, end_str |-> p.end_str,
             no_dec |-> p.no_dec, turno_norm |-> p.turno_norm,
             start_dt |-> start_dt, end_dt |-> end_dt,
             durata_min |-> IF start_dt = NaT \/ end_dt = NaT THEN 0 ELSE end_dt - start_dt,
             festivo |-> is_truthy_festivo(r.festivo)]
        timed(p, start_dt) == columns(p, start_dt, overnight(start_dt, dt(p.end_str)))
        parsed(p) == timed(p, dt(p.start_str))
    IN  parsed(turno_parsed[v][tf])

\* parse_time_value of a cell that holds a datetime.time, <<hour, minute>>, or is empty
parse_time_value(x) == IF x = NaN THEN None ELSE x

\* Aliservice: a row of sdf after the loop over the rows without a start, which makes
\* the shift of a row with a CONVOCAZIONE from it
from_convocazione(r) ==
    LET conv == parse_time_value(r.cells.convocazione)
        strftime_HM(dt) == Fmt02(hour_of(dt)) \o <<":">> \o Fmt02(dt % 60)
        made(start_dt, end_dt) ==
            [r EXCEPT !.start_dt = start_dt, !.end_dt = end_dt,
                      !.start_str = strftime_HM(start_dt), !.end_str = strftime_HM(end_dt),
                      !.turno_norm = strftime_HM(start_dt) \o <<"-">> \o strftime_HM(end_dt),
                      !.durata_min = end_dt - start_dt]
        from(start_dt) == made(start_dt, start_dt + 3 * 60)
    IN  IF r.start_str # None \/ conv = None THEN r
        ELSE from(to_dt_replace(r.cells.date,
                                Fmt02(conv[1]) \o <<":">> \o Fmt02(conv[2])) - 15)

\* for hh, mm in atd_times: tdt = d + hh:mm, a day later when it precedes the start
anchor(times_, d, start_dt) ==
    [k \in DOMAIN times_ |->
        LET tdt == d + Timedelta(times_[k])
        IN  IF lt(tdt, start_dt) THEN tdt + MinutesPerDay ELSE tdt]

\* a lookup that finds no key: what C1 is checked against
index_of_nothing(bs, key) == 0

\* a lookup that finds the first block whatever the key: what C20 is checked against
index_of_first(bs, key) == IF bs = << >> THEN 0 ELSE 1

\* the position of a key in blocks, 0 when the key is not in blocks
index_of(bs, key) ==
    IF \E i \in DOMAIN bs : bs[i].key = key
    THEN CHOOSE i \in DOMAIN bs : bs[i].key = key
    ELSE 0

SourceRowRef(sh, r) ==
    [sheet |-> sh, row_index |-> r.sheet_row_order, original_order |-> r.global_order]

\* f"ERRORE_{idx}"
errore_placeholder(idx) ==
    <<"E", "R", "R", "O", "R", "E", "_">>
    \o (IF idx < 10 THEN <<DigitChar(idx)>> ELSE Fmt02(idx))

\* the placeholder Rusconi makes for a row without a shift
no_turno_placeholder(std_times, atd_times) ==
    LET no_turno == <<"N", "O", "_", "T", "U", "R", "N", "O">>
    IN  IF std_times # << >>
        THEN no_turno \o <<"_", "S", "T", "D">> \o Fmt02(std_times[1][1]) \o Fmt02(std_times[1][2])
        ELSE IF atd_times # << >>
        THEN no_turno \o <<"_", "A", "T", "D">> \o Fmt02(atd_times[1][1]) \o Fmt02(atd_times[1][2])
        ELSE no_turno

-----------------------------------------------------------------------------
(* The row loop: one row creates a block or is merged into the block of its *)
(* key                                                                      *)

\* BlockAgg, with the fields of the four variants; rows lists the global order of
\* the rows the block was built from
BlockAgg(key, r, apt, turno_norm, end_dt, atd_list, std_list, festivo_flag, src, errore) ==
    [key |-> key, date |-> r.cells.date, apt |-> apt,
     tour_operator |-> r.cells.tour_operator, servizio_tipo |-> r.cells.servizi,
     turno_raw_ffill |-> IF r.turno_ffill = NaN THEN << >> ELSE strip(r.turno_ffill),
     turno_norm |-> turno_norm, start_dt |-> r.start_dt, end_dt |-> end_dt,
     durata_min |-> r.durata_min, no_dec |-> r.no_dec,
     atd_list |-> atd_list, std_list |-> std_list, festivo_flag |-> festivo_flag,
     first_source |-> src, errore |-> errore, rows |-> <<r.global_order>>]

\* the "provided" values of a row, for the discrepancy sheet; the sheets have the three
\* columns
provided(r) ==
    [provided_importo |-> parse_eur(r.cells.importo),
     provided_extra_min |-> parse_minutes_from_cell(r.cells.ore_extra),
     provided_night_min |-> parse_minutes_from_cell(r.cells.notturno)]

\* a merge that takes the provided values of the row merged: what C21 is checked against
last_provided(b, r, src) == [k \in DOMAIN b |-> IF k \in DOMAIN provided(r) THEN provided(r)[k] ELSE b[k]]

\* the merge keeps the provided values of the first row of the block
first_provided(b, r, src) ==
    IF src.original_order < b.first_source.original_order
    THEN [b EXCEPT !.provided_importo = provided(r).provided_importo,
                   !.provided_extra_min = provided(r).provided_extra_min,
                   !.provided_night_min = provided(r).provided_night_min]
    ELSE b

\* the earliest source by global order
earliest(b, src) ==
    IF src.original_order < b.first_source.original_order THEN src ELSE b.first_source

aggregate_veratour(bs, r, sh) ==
    LET d == r.cells.date
        apt == r.cells.apt
        turno_norm == strip(str(r.turno_norm))
        key == <<d, apt, turno_norm>>
        atd_dt_list == anchor(extract_atd_candidates(r.cells.atd), d, r.start_dt)
        src == SourceRowRef(sh, r)
        k == index_of(bs, key)
    IN  IF k = 0
        THEN Append(bs, BlockAgg(key, r, apt, turno_norm, r.end_dt, atd_dt_list, << >>,
                                 r.festivo, src, "") @@ provided(r))
        ELSE [bs EXCEPT ![k] =
                [first_provided(@, r, src)
                    EXCEPT !.atd_list = @ \o atd_dt_list,
                           !.festivo_flag = @ \/ r.festivo,
                           !.first_source = earliest(bs[k], src),
                           !.rows = Append(@, r.global_order)]]

\* the message validate_row_data returns for a row that passed the filters, "" for None
validate_row_data(r) ==
    LET apt_val == r.cells.apt
        turno_val == r.cells.turno
        unrecognised(parsed) == parsed.start_str = None \/ parsed.end_str = None
        apt_bad == apt_val = "" \/ apt_val = "nan"
        turno_bad == turno_val # NaN /\ strip(str(turno_val)) # << >>
                     /\ unrecognised(parse_turno_alpitour(strip(str(turno_val))))
        message(a, t) ==
            IF a /\ t THEN "APT mancante o vuoto; TURNO non riconoscibile"
            ELSE IF a THEN "APT mancante o vuoto"
            ELSE IF t THEN "TURNO non riconoscibile"
            ELSE ""
    IN  message(apt_bad, turno_bad)

aggregate_alpitour(bs, r, sh) ==
    LET errore_riga == validate_row_data(r)
        d == r.cells.date
        apt == r.cells.apt
        norm == IF r.turno_norm = NaN THEN << >> ELSE strip(str(r.turno_norm))
        turno_norm == IF norm = << >> THEN errore_placeholder(r.idx) ELSE norm
        key == <<d, apt, turno_norm>>
        atd_dt_list == anchor(extract_atd_candidates(r.cells.atd), d, r.start_dt)
        std_dt_list == anchor(extract_atd_candidates(r.cells.std), d, r.start_dt)
        src == SourceRowRef(sh, r)
        k == index_of(bs, key)
    IN  IF k = 0
        THEN Append(bs, BlockAgg(key, r, apt, turno_norm, r.end_dt, atd_dt_list, std_dt_list,
                                 r.festivo, src, errore_riga) @@ provided(r))
        ELSE [bs EXCEPT ![k] =
                [first_provided(@, r, src)
                    EXCEPT !.atd_list = @ \o atd_dt_list,
                           !.std_list = @ \o std_dt_list,
                           !.festivo_flag = @ \/ r.festivo,
                           !.first_source = earliest(bs[k], src),
                           !.rows = Append(@, r.global_order)]]

\* a merge that takes the end of the row merged, later or not: what C22 is checked against
aggregate_aliservice_last_end(bs, r, sh) ==
    LET d == r.cells.date
        apt == r.cells.apt
        tour_operator_val == r.cells.tour_operator
        giorno_val == IF r.cells.giorno = NaN THEN << >> ELSE strip(str(r.cells.giorno))
        norm == IF r.turno_norm = NaN THEN << >> ELSE strip(str(r.turno_norm))
        festivo_flag == is_festivo_from_giorno(giorno_val)
        turno_norm == IF norm = << >> THEN errore_placeholder(r.idx) ELSE norm
        key == IF tour_operator_val # "" THEN <<d, apt, turno_norm, tour_operator_val>>
               ELSE <<d, apt, turno_norm>>
        atd_dt_list == anchor(extract_atd_candidates(r.cells.atd), d, r.start_dt)
        std_dt_list == anchor(extract_atd_candidates(r.cells.std), d, r.start_dt)
        fine0 == IF atd_dt_list # << >> THEN max(atd_dt_list)
                 ELSE IF std_dt_list # << >> THEN max(std_dt_list)
                 ELSE r.end_dt
        fine_turno_dt == IF lt(fine0, r.start_dt) THEN fine0 + MinutesPerDay ELSE fine0
        end_dt_base == IF r.end_dt = NaT /\ r.start_dt # NaT THEN r.start_dt + 3 * 60
                       ELSE r.end_dt
        k == index_of(bs, key)
    IN  IF k # 0
        THEN [bs EXCEPT ![k] =
                [@ EXCEPT !.atd_list = @ \o atd_dt_list,
                          !.std_list = @ \o std_dt_list,
                          !.end_dt = IF fine_turno_dt # NaT THEN fine_turno_dt ELSE @,
                          !.rows = Append(@, r.global_order)]]
        ELSE Append(bs, BlockAgg(key, r, apt, turno_norm,
                                 IF fine_turno_dt # NaT THEN fine_turno_dt ELSE end_dt_base,
                                 atd_dt_list, std_dt_list, festivo_flag,
                                 SourceRowRef(sh, r), ""))

aggregate_aliservice(bs, r, sh) ==
    LET d == r.cells.date
        apt == r.cells.apt
        tour_operator_val == r.cells.tour_operator
        giorno_val == IF r.cells.giorno = NaN THEN << >> ELSE strip(str(r.cells.giorno))
        norm == IF r.turno_norm = NaN THEN << >> ELSE strip(str(r.turno_norm))
        festivo_flag == is_festivo_from_giorno(giorno_val)
        turno_norm == IF norm = << >> THEN errore_placeholder(r.idx) ELSE norm
        key == IF tour_operator_val # "" THEN <<d, apt, turno_norm, tour_operator_val>>
               ELSE <<d, apt, turno_norm>>
        atd_dt_list == anchor(extract_atd_candidates(r.cells.atd), d, r.start_dt)
        std_dt_list == anchor(extract_atd_candidates(r.cells.std), d, r.start_dt)
        fine0 == IF atd_dt_list # << >> THEN max(atd_dt_list)
                 ELSE IF std_dt_list # << >> THEN max(std_dt_list)
                 ELSE r.end_dt
        fine_turno_dt == IF lt(fine0, r.start_dt) THEN fine0 + MinutesPerDay ELSE fine0
        end_dt_base == IF r.end_dt = NaT /\ r.start_dt # NaT THEN r.start_dt + 3 * 60
                       ELSE r.end_dt
        k == index_of(bs, key)
    IN  IF k # 0
        THEN [bs EXCEPT ![k] =
                [@ EXCEPT !.atd_list = @ \o atd_dt_list,
                          !.std_list = @ \o std_dt_list,
                          !.end_dt = IF fine_turno_dt # NaT /\ (@ = NaT \/ fine_turno_dt > @)
                                     THEN fine_turno_dt ELSE @,
                          !.rows = Append(@, r.global_order)]]
        ELSE Append(bs, BlockAgg(key, r, apt, turno_norm,
                                 IF fine_turno_dt # NaT THEN fine_turno_dt ELSE end_dt_base,
                                 atd_dt_list, std_dt_list, festivo_flag,
                                 SourceRowRef(sh, r), ""))

aggregate_rusconi(bs, r, sh) ==
    LET d == r.cells.date
        apt == r.cells.apt
        norm == IF r.turno_norm = NaN THEN << >> ELSE strip(str(r.turno_norm))
        atd_times == extract_atd_candidates(r.cells.atd)
        std_times == extract_atd_candidates(r.cells.std)
        turno_norm == IF norm = << >> THEN no_turno_placeholder(std_times, atd_times) ELSE norm
        key == <<d, apt, turno_norm, r.global_order>>
        atd_dt_list == anchor(atd_times, d, r.start_dt)
        std_dt_list == anchor(std_times, d, r.start_dt)
        k == index_of(bs, key)
    IN  IF k # 0
        THEN [bs EXCEPT ![k] =
                [@ EXCEPT !.atd_list = @ \o atd_dt_list,
                          !.std_list = @ \o std_dt_list,
                          !.rows = Append(@, r.global_order)]]
        ELSE Append(bs, BlockAgg(key, r, apt, turno_norm, r.end_dt, atd_dt_list, std_dt_list,
                                 FALSE, SourceRowRef(sh, r), ""))

-----------------------------------------------------------------------------
(* The output loop: one record of rows_detail for each block                *)

\* the airports in the order Python compares their codes
APTS == <<"BGY", "FCO", "VCE", "VRN", "nan">>

\* sorted(blocks.items(), key=(date, apt, first_source.original_order))
sorted(bs) ==
    LET rank(apt) == CHOOSE k \in DOMAIN APTS : APTS[k] = apt
        before(a, b) ==
            IF a.date # b.date THEN a.date < b.date
            ELSE IF a.apt # b.apt THEN rank(a.apt) < rank(b.apt)
            ELSE a.first_source.original_order < b.first_source.original_order
    IN  [k \in DOMAIN bs |->
            bs[CHOOSE i \in DOMAIN bs :
                    Cardinality({j \in DOMAIN bs : before(bs[j], bs[i])}) = k - 1]]

\* a record of rows_detail; subtotal is the sum of the unrounded components before
\* the holiday multiplier, which the output does not show
Detail(b, start_dt, end_dt, durata_min, atd_sel, turno_eur, extra_min, extra_eur, night_min, night_eur, festivo, subtotal, totale, errore) ==
    [key |-> b.key, rows |-> b.rows, DATA |-> b.date, APT |-> b.apt,
     TURNO_NORMALIZZATO |-> b.turno_norm, INIZIO_DT |-> start_dt, FINE_DT |-> end_dt,
     DURATA_TURNO_MIN |-> durata_min, NO_DEC |-> b.no_dec, ATD_SCELTO |-> atd_sel,
     TURNO_EUR |-> round2(turno_eur), EXTRA_MIN |-> extra_min,
     EXTRA_EUR |-> round2(extra_eur), NOTTE_MIN |-> night_min,
     NOTTE_EUR |-> round2(night_eur), FESTIVO |-> festivo, subtotal |-> subtotal,
     TOTALE_BLOCCO_EUR |-> totale, ERRORE |-> errore, TOUR_OPERATOR |-> b.tour_operator]

\* the later elements of xs than t
after(xs, t) == SelectSeq(xs, LAMBDA x : x > t)

detail_veratour(b) ==
    LET durata_min == b.end_dt - b.start_dt
        turno_eur == compute_turno_eur_veratour(durata_min)
        candidates == after(b.atd_list, b.end_dt)
        atd_sel == IF candidates # << >> THEN max(candidates) ELSE NaT
        extra_min_raw == compute_extra_min_veratour(atd_sel, b.end_dt, b.no_dec)
        extra_min == apply([mode |-> "NONE", step_min |-> 5], extra_min_raw)
        extra_eur == extra_min * ((18 * EUR) \div 60)
        night_turno == night_minutes_veratour(b.start_dt, b.end_dt)
        night_extra == IF extra_min_raw > 0 /\ ~b.no_dec /\ extra_min > 0
                       THEN night_minutes_veratour(b.end_dt, b.end_dt + extra_min)
                       ELSE 0
        night_min == apply([mode |-> "NONE", step_min |-> 5], night_turno + night_extra)
        night_eur == compute_night_eur_veratour(night_min)
        subtotal == turno_eur + extra_eur + night_eur
        totale == IF b.festivo_flag THEN times(subtotal, 120) ELSE subtotal
    IN  Detail(b, b.start_dt, b.end_dt, durata_min, atd_sel, turno_eur, extra_min, extra_eur,
               night_min, night_eur, b.festivo_flag, subtotal, round2(totale), "")

detail_alpitour(b) ==
    LET durata_min == b.end_dt - b.start_dt
        turno_eur == compute_turno_eur_alpitour(durata_min, b.apt)
        atd_after == after(b.atd_list, b.end_dt)
        std_after == after(b.std_list, b.end_dt)
        atd_sel == IF atd_after # << >> THEN max(atd_after)
                   ELSE IF b.atd_list # << >> THEN max(b.atd_list)
                   ELSE IF std_after # << >> THEN max(std_after)
                   ELSE IF b.std_list # << >> THEN max(b.std_list)
                   ELSE NaT
        extra_min == compute_extra_min_alpitour(atd_sel, b.end_dt, b.no_dec)
        \* 20 euro an hour
        extra_eur == (extra_min * EUR) \div 3
        night_turno == night_minutes_alpitour(b.start_dt, b.end_dt)
        night_extra == IF extra_min > 0 /\ ~b.no_dec
                       THEN night_minutes_alpitour(b.end_dt, b.end_dt + extra_min)
                       ELSE 0
        night_min == night_turno + night_extra
        night_eur == compute_night_eur_alpitour(night_min, b.apt)
        subtotal == turno_eur + extra_eur + night_eur
        totale == IF b.festivo_flag THEN times(subtotal, 120) ELSE subtotal
    IN  IF b.errore # ""
        THEN Detail(b, b.start_dt, b.end_dt, 0, NaT, 0, 0, 0, 0, 0, b.festivo_flag, 0, 0,
                    b.errore)
        ELSE Detail(b, b.start_dt, b.end_dt, durata_min, atd_sel, turno_eur, extra_min,
                    extra_eur, night_min, night_eur, b.festivo_flag, subtotal,
                    round2(totale), "")

detail_aliservice(b) ==
    LET turno_eur == compute_turno_eur_aliservice(b.servizio_tipo, "")
        fine_turno_base == IF b.start_dt # NaT THEN b.start_dt + 3 * 60 ELSE NaT
        atd_sel == IF b.atd_list # << >> THEN b.atd_list[Len(b.atd_list)]
                   ELSE IF b.std_list # << >> THEN b.std_list[Len(b.std_list)]
                   ELSE NaT
        extra == compute_extra_min_aliservice(fine_turno_base, atd_sel, b.no_dec)
        extra_min_raw == extra[1]
        extra_min == extra[2]
        extra_eur == compute_extra_eur_aliservice(extra_min)
        night_turno == night_minutes_aliservice(b.start_dt,
                            IF fine_turno_base # NaT THEN fine_turno_base ELSE b.end_dt)
        night_extra == IF extra_min_raw > 0 /\ ~b.no_dec /\ extra_min > 0
                          /\ fine_turno_base # NaT
                       THEN night_minutes_aliservice(fine_turno_base,
                                                     fine_turno_base + extra_min)
                       ELSE 0
        night_min == IF b.start_dt # NaT /\ b.end_dt # NaT THEN night_turno + night_extra
                     ELSE 0
        night_eur == compute_night_eur_aliservice(night_min)
        subtotal == IF b.festivo_flag THEN times(turno_eur + extra_eur + night_eur, 120)
                    ELSE turno_eur + extra_eur + night_eur
        unrounded == turno_eur + Max2(0, extra_min) * ((15 * EUR) \div 60)
                     + Max2(0, night_min) * ((31 * EUR) \div 1000)
    IN  IF b.errore # ""
        THEN Detail(b, b.start_dt, b.end_dt, 0,
                    IF b.atd_list # << >> THEN b.atd_list[1] ELSE NaT,
                    0, 0, 0, 0, 0, b.festivo_flag, 0, 0, b.errore)
        ELSE Detail(b, b.start_dt, b.end_dt, b.durata_min, atd_sel, turno_eur, extra_min,
                    extra_eur, night_min, night_eur, b.festivo_flag, unrounded,
                    round2(subtotal), "")

\* the local is_festivo after the iteration for b, given its value before
is_festivo_after(b, cfg_holiday_dates, before) ==
    IF b.std_list = << >> THEN before
    ELSE IF date_of(b.date) \in holiday_dates_to_use(cfg_holiday_dates) THEN "True"
    ELSE "False"

detail_rusconi(b, cfg_holiday_dates, before) ==
    LET std0 == IF b.std_list # << >> THEN b.std_list[1] ELSE NaT
        atd_sel == IF b.atd_list # << >> THEN b.atd_list[1] ELSE NaT
        std_sel == IF std0 # NaT /\ date_of(std0) # date_of(b.date)
                   THEN normalize(b.date) + (std0 % MinutesPerDay)
                   ELSE std0
        start_rusconi == IF std_sel = NaT THEN b.start_dt ELSE std_sel - 150
        end_rusconi == IF atd_sel # NaT THEN atd_sel ELSE b.end_dt
        turno_eur == compute_turno_eur_rusconi(b.apt)
        late == atd_sel # NaT /\ atd_sel > std_sel
        durata_extra_min == IF std_sel # NaT /\ late THEN atd_sel - std_sel ELSE 0
        extra_eur == durata_extra_min * ((18 * EUR) \div 60)
        night_min == night_minutes_rusconi(start_rusconi, end_rusconi)
        night_eur == compute_night_eur_rusconi(night_min)
        is_festivo_now == is_festivo_after(b, cfg_holiday_dates, before)
        subtotal == turno_eur + extra_eur + night_eur
        totale == IF is_festivo_now = "True" THEN times(subtotal, 130) ELSE subtotal
        start_out == IF start_rusconi # NaT THEN start_rusconi ELSE b.start_dt
        end_out == IF end_rusconi # NaT THEN end_rusconi ELSE b.end_dt
    IN  IF std_sel = NaT
        THEN Detail(b, start_out, end_out, 150, atd_sel, 0, 0, 0, 0, 0,
                    is_festivo_now = "True", 0, 0, "STD non disponibile")
        ELSE Detail(b, start_out, end_out, 150 + durata_extra_min, atd_sel, turno_eur,
                    durata_extra_min, extra_eur, night_min, night_eur,
                    is_festivo_now = "True", subtotal, round2(totale),
                    IF atd_sel = NaT THEN "ATD non disponibile per calcolo extra" ELSE "")


-----------------------------------------------------------------------------
(* Discrepancies and period totals                                          *)

\* computed minus provided, None when nothing was provided
delta(calc, file) == IF file = None THEN None ELSE Num(calc - file[2])

\* the record of rows_discr for a block of Veratour or Alpitour and its record of
\* rows_detail; totale is the total before round(totale, 2)
discrepancy(b, rec, totale) ==
    [key |-> b.key, rows |-> b.rows,
     EXTRA_MIN_CALC |-> rec.EXTRA_MIN, EXTRA_MIN_FILE |-> b.provided_extra_min,
     DELTA_EXTRA_MIN |-> delta(rec.EXTRA_MIN, b.provided_extra_min),
     NOTTE_MIN_CALC |-> rec.NOTTE_MIN, NOTTE_MIN_FILE |-> b.provided_night_min,
     DELTA_NOTTE_MIN |-> delta(rec.NOTTE_MIN, b.provided_night_min),
     TOTALE_CALC_EUR |-> round2(totale), TOTALE_FILE_EUR |-> b.provided_importo,
     DELTA_TOTALE_EUR |-> IF b.provided_importo = None THEN None
                          ELSE Num(round2(totale - b.provided_importo[2]))]

\* a record only for a provided amount that differs from the computed one: what C17 is
\* checked against
discrepancies_differing(v, b, rec) ==
    IF v \in {"veratour", "alpitour"} /\ b.provided_importo # None
       /\ b.provided_importo[2] # rec.TOTALE_BLOCCO_EUR
    THEN <<discrepancy(b, rec, rec.TOTALE_BLOCCO_EUR)>>
    ELSE << >>

\* what the iteration for b appends to rows_discr: Veratour and Alpitour append a record
\* when at least one provided value is present, Alpitour after the "continue" of a block
\* with an error; Aliservice and Rusconi return an empty frame
discrepancies(v, b, rec) ==
    IF v \in {"veratour", "alpitour"}
       /\ ~(v = "alpitour" /\ b.errore # "")
       /\ (b.provided_importo # None \/ b.provided_extra_min # None
              \/ b.provided_night_min # None)
    THEN <<discrepancy(b, rec, IF rec.FESTIVO THEN times(rec.subtotal, 120)
                               ELSE rec.subtotal)>>
    ELSE << >>

\* the 15th counted in the second half: what C18 is checked against
PERIODO_before_15(rec) == IF to_datetime_day(strftime(rec.DATA)) < 15 THEN "1-15" ELSE "16-31"

\* np.where(detail_df["__DATE_TS"].dt.day <= 15, "1-15", "16-31"), the day read back from
\* the text of DATA
PERIODO(rec) == IF to_datetime_day(strftime(rec.DATA)) <= 15 THEN "1-15" ELSE "16-31"

\* the tour operators of the rows in use, in the order Python compares them
TOUR_OPERATORS == <<"", "Rusconi", "TO1">>

\* groupby_cols: PERIODO, after TOUR OPERATOR where rows_detail has the column (the
\* AGENZIA of Aliservice is the same text on every row in use)
groupby_cols(v, rec) ==
    CASE v = "aliservice" -> <<rec.TOUR_OPERATOR, PERIODO(rec)>>
      [] v = "rusconi" ->
            <<IF rec.TOUR_OPERATOR # "" THEN rec.TOUR_OPERATOR ELSE "Rusconi", PERIODO(rec)>>
      [] OTHER -> <<"", PERIODO(rec)>>

RECURSIVE sum(_, _)
\* Series.sum() of a column of the records recs
sum(recs, col) ==
    IF recs = << >> THEN 0 ELSE recs[1][col] + sum(Tail(recs), col)

\* the sums of one row of totals_df
agg(group, periodo, recs) ==
    [group |-> group, PERIODO |-> periodo,
     TOT_TURNO_EUR |-> sum(recs, "TURNO_EUR"), TOT_EXTRA_MIN |-> sum(recs, "EXTRA_MIN"),
     TOT_EXTRA_EUR |-> sum(recs, "EXTRA_EUR"), TOT_NOTTE_MIN |-> sum(recs, "NOTTE_MIN"),
     TOT_NOTTE_EUR |-> sum(recs, "NOTTE_EUR"),
     TOT_TOTALE_EUR |-> sum(recs, "TOTALE_BLOCCO_EUR")]

\* totals_df: detail_df.groupby(groupby_cols).agg(...), the groups in key order, and
\* the row of the month after them
totals(v, det) ==
    LET keys == {groupby_cols(v, det[i]) : i \in DOMAIN det}
        rank(k) == 2 * (CHOOSE n \in DOMAIN TOUR_OPERATORS : TOUR_OPERATORS[n] = k[1])
                   + (IF k[2] = "1-15" THEN 0 ELSE 1)
        nth(n) == CHOOSE k \in keys : Cardinality({j \in keys : rank(j) < rank(k)}) = n - 1
        members(k) == SelectSeq(det, LAMBDA rec : groupby_cols(v, rec) = k)
    IN  [n \in 1..Cardinality(keys) |-> agg(nth(n), nth(n)[2], members(nth(n)))]
        \o <<agg(<< >>, "MESE", det)>>
-----------------------------------------------------------------------------
(* The steps of a run                                                       *)

\* the sheet being read has one more row that passed the filters
ReadRow ==
    /\ phase = "read"
    /\ Len(seen) + Len(raw) < MaxRows
    /\ \E r \in Rows(dom) : raw' = Append(raw, r)
    /\ UNCHANGED <<variant, holiday_dates, dom, sheet, global_order, seen, sdf, pos, blocks,
                   phase, detail, is_festivo, rows_discr, totals_df, calls>>

\* the columns of the sheet are computed, up to the row loop
PrepareSheet ==
    /\ phase = "read"
    /\ raw # << >>
    /\ LET interpretable(r) == r.start_str # None /\ r.end_str # None
           columns(tf) ==
               [i \in DOMAIN raw |->
                   sdf_row(variant, raw[i], i - 1, global_order + i - 1, tf[i])]
           loop(rows) ==
               /\ seen' = seen \o [i \in DOMAIN raw |->
                                     [sheet |-> sheet, date |-> raw[i].date,
                                      global_order |-> rows[i].global_order,
                                      turno |-> raw[i].turno, cells |-> raw[i],
                                      turno_ffill |-> rows[i].turno_ffill,
                                      interpretable |-> interpretable(rows[i])]]
               /\ IF variant \in {"veratour", "alpitour"}
                  THEN sdf' = SelectSeq(rows, interpretable) /\ phase' = "rows"
                  ELSE IF variant = "aliservice"
                          /\ \E i \in DOMAIN rows :
                                rows[i].start_dt = NaT \/ rows[i].end_dt = NaT
                  \* astype(int) raises on a missing duration
                  THEN sdf' = << >> /\ phase' = "aborted"
                  ELSE IF variant = "aliservice"
                  THEN sdf' = [i \in DOMAIN rows |-> from_convocazione(rows[i])]
                       /\ phase' = "rows"
                  ELSE sdf' = rows /\ phase' = "rows"
       IN  loop(columns(turno_ffill(variant, raw)))
    /\ global_order' = global_order + Len(raw)
    /\ pos' = 1
    /\ UNCHANGED <<variant, holiday_dates, dom, sheet, raw, blocks, detail, is_festivo,
                   rows_discr, totals_df, calls>>

\* one iteration of the row loop
AggregateRow ==
    /\ phase = "rows"
    /\ pos <= Len(sdf)
    /\ blocks' = CASE variant = "veratour" -> aggregate_veratour(blocks, sdf[pos], sheet)
                   [] variant = "alpitour" -> aggregate_alpitour(blocks, sdf[pos], sheet)
                   [] variant = "aliservice" -> aggregate_aliservice(blocks, sdf[pos], sheet)
                   [] variant = "rusconi" -> aggregate_rusconi(blocks, sdf[pos], sheet)
    /\ pos' = pos + 1
    /\ UNCHANGED <<variant, holiday_dates, dom, sheet, raw, global_order, seen, sdf, phase,
                   detail, is_festivo, rows_discr, totals_df, calls>>

\* the loop over the sheets goes on to the next sheet
NextSheet ==
    /\ phase = "rows"
    /\ pos > Len(sdf)
    /\ sheet < MaxSheets
    /\ sheet' = sheet + 1
    /\ raw' = << >>
    /\ sdf' = << >>
    /\ pos' = 1
    /\ phase' = "read"
    /\ UNCHANGED <<variant, holiday_dates, dom, global_order, seen, blocks, detail, is_festivo,
                   rows_discr, totals_df, calls>>

\* the last sheet is done: Veratour and Alpitour flag the blocks dated on a holiday
EndInput ==
    /\ IF phase = "read" THEN raw = << >> ELSE phase = "rows" /\ pos > Len(sdf)
    /\ blocks' = IF variant \in {"veratour", "alpitour"}
                 THEN [k \in DOMAIN blocks |->
                          IF date_of(blocks[k].date) \in holiday_dates_to_use(holiday_dates)
                          THEN [blocks[k] EXCEPT !.festivo_flag = TRUE]
                          ELSE blocks[k]]
                 ELSE blocks
    /\ phase' = IF blocks = << >> THEN "done" ELSE "compute"
    /\ raw' = << >>
    /\ sdf' = << >>
    /\ pos' = 1
    /\ UNCHANGED <<variant, holiday_dates, dom, sheet, global_order, seen, detail, is_festivo,
                   rows_discr, totals_df, calls>>

\* one iteration of the output loop
ComputeBlock ==
    /\ phase = "compute"
    /\ LET iteration(b) ==
               LET append(rec) ==
                       /\ detail' = Append(detail, rec)
                       /\ rows_discr' = rows_discr \o discrepancies(variant, b, rec)
               IN  /\ append(CASE variant = "veratour" -> detail_veratour(b)
                               [] variant = "alpitour" -> detail_alpitour(b)
                               [] variant = "aliservice" -> detail_aliservice(b)
                               [] variant = "rusconi" ->
                                    detail_rusconi(b, holiday_dates, is_festivo))
                   /\ is_festivo' = IF variant = "rusconi"
                                    THEN is_festivo_after(b, holiday_dates, is_festivo)
                                    ELSE is_festivo
       IN  iteration(sorted(blocks)[Len(detail) + 1])
    /\ phase' = IF Len(detail) + 1 = Len(blocks) THEN "totals" ELSE "compute"
    /\ UNCHANGED <<variant, holiday_dates, dom, sheet, raw, global_order, seen, sdf, pos,
                   blocks, totals_df, calls>>

\* the totals by period, which end the run
PeriodTotals ==
    /\ phase = "totals"
    /\ totals_df' = totals(variant, detail)
    /\ phase' = "done"
    /\ UNCHANGED <<variant, holiday_dates, dom, sheet, raw, global_order, seen, sdf, pos,
                   blocks, detail, is_festivo, rows_discr, calls>>

Next ==
    \/ ReadRow
    \/ PrepareSheet
    \/ AggregateRow
    \/ NextSheet
    \/ EndInput
    \/ ComputeBlock
    \/ PeriodTotals

InitFill == InitOf("fill")
InitMerge == InitOf("merge")
InitTime == InitOf("time")
InitHoliday == InitOf("holiday")
InitAnchor == InitOf("anchor")
InitDiscr == InitOf("discr")
InitPeriod == InitOf("period")
InitCheckin == InitOf("checkin")
InitDelay == InitOf("delay")

SpecFill == InitFill /\ [][Next]_vars
SpecMerge == InitMerge /\ [][Next]_vars
SpecTime == InitTime /\ [][Next]_vars
SpecHoliday == InitHoliday /\ [][Next]_vars
SpecAnchor == InitAnchor /\ [][Next]_vars
SpecDiscr == InitDiscr /\ [][Next]_vars
SpecPeriod == InitPeriod /\ [][Next]_vars
SpecCheckin == InitCheckin /\ [][Next]_vars
SpecDelay == InitDelay /\ [][Next]_vars


-----------------------------------------------------------------------------
(* night_minutes on its own: calls with one start and several ends          *)

\* the calls of night_minutes that a run makes
MaxCalls == 2

night_minutes(v, start_dt, end_dt) ==
    CASE v = "veratour" -> night_minutes_veratour(start_dt, end_dt)
      [] v = "alpitour" -> night_minutes_alpitour(start_dt, end_dt)
      [] v = "aliservice" -> night_minutes_aliservice(start_dt, end_dt)
      [] v = "rusconi" -> night_minutes_rusconi(start_dt, end_dt)

\* the starts of the intervals, on 9 December
Starts ==
    {Midnight(9) + hhmm[1] * 60 + hhmm[2] :
        hhmm \in {<<5, 30>>, <<21, 0>>, <<22, 30>>, <<23, 0>>, <<23, 30>>}}

\* the lengths of the intervals in minutes, from an end before the start to three days
Lengths == {0 - 30, 0, 30, 60, 90, 120, 450, 720, 1440, 2160, 2880, 4320}

\* night_minutes(interval_start, interval_end) is called and returns
NightMinutes ==
    /\ Len(calls) < MaxCalls
    /\ \E s \in Starts, d \in Lengths :
          /\ IF calls = << >> THEN TRUE ELSE calls[1].interval_start = s
          /\ calls' = Append(calls, [interval_start |-> s, interval_end |-> s + d,
                                     minutes |-> night_minutes(variant, s, s + d)])
    /\ UNCHANGED <<variant, holiday_dates, dom, sheet, raw, global_order, seen, sdf, pos,
                   blocks, phase, detail, is_festivo, rows_discr, totals_df>>

InitNight == InitOf("night")
NextNight == NightMinutes
SpecNight == InitNight /\ [][NextNight]_vars

-----------------------------------------------------------------------------
(* parse_turno on its own: one range of times written in several ways        *)

\* the hour h as the cell writes it, with or without a leading zero
HourText(h, padded) == IF padded \/ h >= 10 THEN Fmt02(h) ELSE <<DigitChar(h)>>

\* the text of a TURNO cell for the times t = <<h1, m1, h2, m2>>: the shape "full" writes
\* both minutes, "end" those of the end only, "start" those of the start only; hm stands
\* between hours and minutes, dash between the two times
TurnoText(shape, t, hm, dash, padded) ==
    HourText(t[1], padded)
    \o (IF shape \in {"full", "start"} THEN <<hm>> \o Fmt02(t[2]) ELSE << >>)
    \o <<dash>>
    \o HourText(t[3], padded)
    \o (IF shape \in {"full", "end"} THEN <<hm>> \o Fmt02(t[4]) ELSE << >>)

\* the times written in the cells: within the day, past midnight, and out of bounds
Times(shape) ==
    CASE shape = "full" ->
            {<<8, 0, 11, 30>>, <<22, 15, 2, 0>>, <<8, 0, 47, 0>>, <<8, 75, 11, 0>>,
             <<8, 0, 11, 75>>, <<99, 0, 11, 0>>, <<8, 0, 99, 0>>, <<8, 0, 48, 0>>}
      [] shape = "end" -> {<<8, 0, 11, 30>>, <<8, 0, 9, 30>>, <<22, 0, 2, 15>>}
      [] shape = "start" -> {<<8, 30, 11, 0>>, <<8, 30, 9, 0>>, <<22, 15, 2, 0>>}

\* parse_turno(turno_raw) is called and returns; the calls of a run write the same times
ParseTurno ==
    /\ Len(calls) < MaxCalls
    /\ \E shape \in {"full", "end", "start"}, hm \in {":", ".", ";"},
          dash \in {"-", EN_DASH, EM_DASH}, padded \in BOOLEAN :
          \E t \in Times(shape) :
              /\ IF calls = << >> THEN TRUE
                 ELSE calls[1].shape = shape /\ calls[1].times = t
              /\ calls' = Append(calls,
                      [shape |-> shape, times |-> t, hm |-> hm, dash |-> dash,
                       turno_raw |-> TurnoText(shape, t, hm, dash, padded),
                       parsed |-> parse_turno(variant,
                                              TurnoText(shape, t, hm, dash, padded))])
    /\ UNCHANGED <<variant, holiday_dates, dom, sheet, raw, global_order, seen, sdf, pos,
                   blocks, phase, detail, is_festivo, rows_discr, totals_df>>

InitParse == InitOf("parse")
NextParse == ParseTurno
SpecParse == InitParse /\ [][NextParse]_vars

-----------------------------------------------------------------------------
(* RoundingPolicy.apply on its own                                          *)

\* the policies a configuration may hold, --round-extra-step being any integer
Policies ==
    [mode : {"NONE", "FLOOR", "CEIL", "NEAREST"}, step_min : {0 - 5, 0 - 1, 0, 1, 5, 15}]

\* the minutes the policies are applied to
Minutes == {0, 2, 3, 7, 8, 10, 12, 13}

\* policy.apply(minutes) is called and returns; the calls of a run are of one policy
RoundingApply ==
    /\ Len(calls) < MaxCalls
    /\ \E policy \in Policies, minutes \in Minutes :
          /\ IF calls = << >> THEN TRUE ELSE calls[1].policy = policy
          /\ calls' = Append(calls, [policy |-> policy, minutes |-> minutes,
                                     returned |-> apply(policy, minutes)])
    /\ UNCHANGED <<variant, holiday_dates, dom, sheet, raw, global_order, seen, sdf, pos,
                   blocks, phase, detail, is_festivo, rows_discr, totals_df>>

InitRound == InitOf("round")
NextRound == RoundingApply
SpecRound == InitRound /\ [][NextRound]_vars
-----------------------------------------------------------------------------
(* Properties                                                               *)

\* the parts of a block its key is made of
KeyParts(b) ==
    CASE variant = "rusconi" -> <<b.date, b.apt, b.turno_norm, b.first_source.original_order>>
      [] variant = "aliservice" -> <<b.date, b.apt, b.turno_norm, b.tour_operator>>
      [] OTHER -> <<b.date, b.apt, b.turno_norm>>

\* C1: after any sequence of rows, no two blocks have the same date, airport,
\* normalized shift text and (Aliservice) tour operator or (Rusconi) row ordinal:
\* a row whose key is already in blocks is merged and makes no second block
C1_BlockKeysUnique ==
    \A i, j \in DOMAIN blocks :
        i # j => KeyParts(blocks[i]) # KeyParts(blocks[j]) /\ blocks[i].key # blocks[j].key

\* a second row was merged into the block of its key
C1_Merged == \E i \in DOMAIN blocks : Len(blocks[i].rows) >= 2

\* a TURNO cell without text
EmptyText(x) == x = NaN \/ x = << >>

\* the rows before the k-th that are of its sheet and have a text of their own
Fillers(k) == {j \in 1..(k - 1) : seen[j].sheet = seen[k].sheet /\ ~EmptyText(seen[j].turno)}

Last(S) == CHOOSE j \in S : \A i \in S : i <= j

FillersOfDate(k) == {j \in Fillers(k) : seen[j].date = seen[k].date}

\* C3: where the fill is grouped by date (Veratour, Alpitour), a row with a text
\* keeps it and a row without one receives the text of the nearest row before it in
\* its sheet that has its date and a text, whatever rows of other dates lie between
\* the two, and nothing when there is no such row
C3_FillByDate ==
    variant \in {"veratour", "alpitour"} =>
        \A k \in DOMAIN seen :
            IF ~EmptyText(seen[k].turno) THEN seen[k].turno_ffill = seen[k].turno
            ELSE IF FillersOfDate(k) = {} THEN seen[k].turno_ffill = NaN
            ELSE seen[k].turno_ffill = seen[Last(FillersOfDate(k))].turno

\* rows of date A, date B, date A in one sheet, the last without text and filled
\* with the text of the first
C3_FilledAcrossDate ==
    /\ variant \in {"veratour", "alpitour"}
    /\ Len(seen) = 3
    /\ seen[1].sheet = seen[3].sheet
    /\ seen[1].date = seen[3].date
    /\ seen[2].date # seen[1].date
    /\ ~EmptyText(seen[1].turno)
    /\ EmptyText(seen[3].turno)
    /\ seen[3].turno_ffill = seen[1].turno

\* C3 as stated: a row without text is filled only from a row of its date with no
\* row of another date between the two
C3_NoFillAcrossDate ==
    variant \in {"veratour", "alpitour"} =>
        \A k \in DOMAIN seen :
            EmptyText(seen[k].turno) /\ seen[k].turno_ffill # NaN =>
                \E j \in FillersOfDate(k) :
                    /\ seen[j].turno = seen[k].turno_ffill
                    /\ \A m \in j..k : seen[m].date = seen[k].date

\* C4: in each of the four variants the record of a block whose NO DEC flag is set
\* has no extra minutes and no extra amount, whatever ATD and STD its rows carry
C4_NoDecNoExtra ==
    \A k \in DOMAIN detail :
        detail[k].NO_DEC => detail[k].EXTRA_MIN = 0 /\ detail[k].EXTRA_EUR = 0

\* the block a record of rows_detail was computed from
BlockOf(rec) == blocks[CHOOSE i \in DOMAIN blocks : blocks[i].key = rec.key]

\* C5: where the rule is the latest ATD (Veratour, Alpitour, Aliservice), the record
\* of a block made of two rows with different ATD has both in the block's list and
\* the later of the two as ATD_SCELTO, whichever row came first
C5_LatestDeparture ==
    variant \in {"veratour", "alpitour", "aliservice"} =>
        \A k \in DOMAIN detail :
            LET atd_list == BlockOf(detail[k]).atd_list
            IN  Len(detail[k].rows) = 2 /\ Len(atd_list) = 2 /\ atd_list[1] # atd_list[2]
                => detail[k].ATD_SCELTO = Max2(atd_list[1], atd_list[2])

\* the rows whose forward-filled text is not empty and not a time range
Unparseable == {k \in DOMAIN seen : ~EmptyText(seen[k].turno_ffill) /\ ~seen[k].interpretable}

\* the records of rows_detail made from the k-th row
RecordsOf(k) == {n \in DOMAIN detail : \E m \in DOMAIN detail[n].rows :
                                         detail[n].rows[m] = seen[k].global_order}

\* C6: a row with a text that is not a time range never aborts the run, and when the
\* run is done it has a record with every amount zero and a message in ERRORE
C6_UnparseableRowReported ==
    \A k \in Unparseable :
        /\ phase # "aborted"
        /\ phase = "done" =>
            \E n \in RecordsOf(k) :
                /\ detail[n].ERRORE # ""
                /\ detail[n].TURNO_EUR = 0 /\ detail[n].EXTRA_EUR = 0
                /\ detail[n].NOTTE_EUR = 0 /\ detail[n].TOTALE_BLOCCO_EUR = 0

\* the rows without a time range of their own or filled, which the row loop has passed
Unrecognised == {k \in DOMAIN seen : ~seen[k].interpretable}

\* the blocks made from the k-th row
BlocksOf(k) == {i \in DOMAIN blocks : \E m \in DOMAIN blocks[i].rows :
                                        blocks[i].rows[m] = seen[k].global_order}

\* C7: when the rows are all aggregated, a row without a time range is alone in a
\* block of its own, whose normalized text no other block has
C7_PlaceholderUnique ==
    phase \in {"compute", "done"} =>
        \A k \in Unrecognised :
            /\ BlocksOf(k) # {}
            /\ \A i \in BlocksOf(k) :
                /\ Len(blocks[i].rows) = 1
                /\ \A j \in DOMAIN blocks : j # i => blocks[j].turno_norm # blocks[i].turno_norm

\* C8: a block of a text that is a time range has its end after its start when the
\* amounts are computed
C8_EndAfterStart ==
    phase \in {"compute", "done"} =>
        \A i \in DOMAIN blocks :
            blocks[i].start_dt # NaT => blocks[i].end_dt # NaT /\ blocks[i].end_dt > blocks[i].start_dt

\* the holiday hint of a row: a FESTIVO cell that is truthy, or a GIORNO cell that
\* says festivo
Hint(cells) == is_truthy_festivo(cells.festivo) \/ is_festivo_from_giorno(cells.giorno)

\* C9: the FESTIVO of a record is true exactly when a row of its block has a holiday
\* hint or its date is in the holiday list given, the Italian holidays when none is
C9_HolidayFlag ==
    \A n \in DOMAIN detail :
        detail[n].FESTIVO <=>
            \/ \E k \in DOMAIN seen : n \in RecordsOf(k) /\ Hint(seen[k].cells)
            \/ date_of(detail[n].DATA) \in holiday_dates_to_use(holiday_dates)

\* the holiday multiplier, in hundredths
Multiplier == IF variant = "rusconi" THEN 130 ELSE 120

\* C10: the total of a holiday record is the sum of the unrounded amounts times the
\* multiplier, rounded to the cent
C10_HolidayTotal ==
    \A n \in DOMAIN detail :
        detail[n].FESTIVO /\ detail[n].ERRORE # "STD non disponibile" =>
            detail[n].TOTALE_BLOCCO_EUR = round2(times(detail[n].subtotal, Multiplier))


-----------------------------------------------------------------------------
(* The holiday uplift and the overtime of Alpitour                          *)

\* C11: in the Alpitour variant the holiday uplift of 20% is applied to the base and
\* overtime amounts only: the total of a holiday block is (base + overtime) x 1.20 +
\* night, to the cent.
C11_NightOutsideUplift ==
    variant = "alpitour" =>
        \A n \in DOMAIN detail :
            detail[n].FESTIVO /\ detail[n].ERRORE = "" =>
                LET night == compute_night_eur_alpitour(detail[n].NOTTE_MIN, detail[n].APT)
                IN  detail[n].TOTALE_BLOCCO_EUR
                        = round2(times(detail[n].subtotal - night, 120) + night)

\* C12: in the Alpitour variant the overtime minutes that are billed are the raw
\* overtime minutes rounded up to the next multiple of 5 (cfg.rounding_extra, CEIL to
\* 5): a multiple of 5, and at least the raw minutes.
C12_OvertimeCeil5 ==
    variant = "alpitour" =>
        \A n \in DOMAIN detail :
            detail[n].ERRORE = "" =>
                LET extra_min_raw == compute_extra_min_alpitour(detail[n].ATD_SCELTO, detail[n].FINE_DT,
                                                      detail[n].NO_DEC)
                IN  /\ detail[n].EXTRA_MIN = apply([mode |-> "CEIL", step_min |-> 5], extra_min_raw)
                    /\ detail[n].EXTRA_MIN % 5 = 0
                    /\ detail[n].EXTRA_MIN >= extra_min_raw

\* the elements of a list
Elems(xs) == {xs[i] : i \in DOMAIN xs}

\* the anchor of the Alpitour rule: the latest actual departure after the end if any,
\* else the latest actual departure; the scheduled departures, chosen the same way,
\* only when the block has no actual departure
AnchorDeparture(b) ==
    LET pick(S) == IF {x \in S : x > b.end_dt} # {} THEN Last({x \in S : x > b.end_dt})
                   ELSE Last(S)
    IN  IF b.atd_list # << >> THEN pick(Elems(b.atd_list)) ELSE pick(Elems(b.std_list))

\* C13: in the Alpitour variant a block without the no-departure flag that has a
\* departure gets max(0, anchor + 30 minutes - nominal end) overtime minutes, the
\* anchor being the latest actual departure after the end if any, else the latest
\* actual departure, and a scheduled departure only when there is no actual one.
C13_GraceWindow ==
    variant = "alpitour" =>
        \A n \in DOMAIN detail :
            LET b == BlockOf(detail[n])
            IN  detail[n].ERRORE = "" /\ ~b.no_dec
                /\ (b.atd_list # << >> \/ b.std_list # << >>) =>
                    /\ detail[n].ATD_SCELTO = AnchorDeparture(b)
                    /\ detail[n].EXTRA_MIN = Max2(0, AnchorDeparture(b) + 30 - b.end_dt)

\* an Alpitour block ending at 10:25 whose anchor is the actual departure of 10:24 has 29
\* minutes of overtime
C13_Anchor1024 ==
    /\ variant = "alpitour"
    /\ \E n \in DOMAIN detail :
          /\ detail[n].FINE_DT = Midnight(9) + 10 * 60 + 25
          /\ detail[n].ATD_SCELTO = Midnight(9) + 10 * 60 + 24
          /\ detail[n].EXTRA_MIN = 29

-----------------------------------------------------------------------------
(* Night minutes                                                            *)

\* the records of rows_detail of the shift from 22:00 to 02:00
Shift2202 ==
    {n \in DOMAIN detail :
        detail[n].TURNO_NORMALIZZATO = <<"2", "2", ":", "0", "0", "-", "0", "2", ":", "0", "0">>}

\* C14: the shift "22:00-02:00", written with an en dash, ends a day after it starts,
\* at 02:00, and with the night window 23:00-06:00 of Alpitour its night minutes are the
\* 180 minutes from 23:00 to 02:00, the intersection of the shift with the window.
C14_Night180 ==
    variant = "alpitour" =>
        \A n \in Shift2202 :
            /\ detail[n].INIZIO_DT = detail[n].DATA + 22 * 60
            /\ detail[n].FINE_DT = detail[n].DATA + MinutesPerDay + 2 * 60
            /\ detail[n].NOTTE_MIN = 180

\* an Alpitour record made from the text with the en dash, with 180 night minutes
C14_EnDashShift ==
    /\ variant = "alpitour"
    /\ \E n \in Shift2202 :
          /\ \E k \in DOMAIN BlockOf(detail[n]).turno_raw_ffill :
                BlockOf(detail[n]).turno_raw_ffill[k] = EN_DASH
          /\ detail[n].FINE_DT - detail[n].INIZIO_DT = 4 * 60
          /\ detail[n].NOTTE_MIN = 180

\* C14 as stated: the night minutes of that shift are 240
C14_Night240 ==
    variant = "alpitour" =>
        \A n \in Shift2202 :
            /\ detail[n].FINE_DT = detail[n].DATA + MinutesPerDay + 2 * 60
            /\ detail[n].NOTTE_MIN = 240

\* C15: night_minutes is monotone in the end of the interval: of two calls with the
\* same start, the one with the later end does not return fewer minutes; and with the
\* window 23:00-06:00 the interval 22:30-23:30 has exactly 30 night minutes.
C15_MonotoneInEnd ==
    /\ \A i, j \in DOMAIN calls :
          calls[i].interval_start = calls[j].interval_start
          /\ calls[i].interval_end <= calls[j].interval_end
              => calls[i].minutes <= calls[j].minutes
    /\ \A i \in DOMAIN calls :
          variant = "alpitour"
          /\ calls[i].interval_start = Midnight(9) + 22 * 60 + 30
          /\ calls[i].interval_end = Midnight(9) + 23 * 60 + 30
              => calls[i].minutes = 30

\* the interval 22:30-23:30 was given to the night_minutes of Alpitour, and then an
\* interval from 22:30 to beyond midnight, which has more night minutes
C15_LaterEndMoreMinutes ==
    /\ variant = "alpitour"
    /\ Len(calls) = 2
    /\ calls[1].interval_start = Midnight(9) + 22 * 60 + 30
    /\ calls[1].interval_end = Midnight(9) + 23 * 60 + 30
    /\ calls[1].minutes = 30
    /\ calls[2].interval_end > Midnight(10)
    /\ calls[2].minutes > 30

-----------------------------------------------------------------------------
(* Discrepancy records                                                      *)

\* the cells of the row that created block b
CreatingRow(b) == seen[CHOOSE k \in DOMAIN seen : seen[k].global_order = b.rows[1]].cells

\* the row carried at least one provided value
Carried(cells) == cells.importo # NaN \/ cells.ore_extra # NaN \/ cells.notturno # NaN

\* the records of rows_discr for block b
DiscrepanciesOf(b) == {m \in DOMAIN rows_discr : rows_discr[m].key = b.key}

\* the record of rows_detail for block b
DetailOf(b) == detail[CHOOSE n \in DOMAIN detail : detail[n].key = b.key]

\* computed minus the value in the cell, None for an empty cell
Signed(calc, cell) == IF cell = NaN THEN None ELSE Num(calc - cell[2])

\* C16: when a run is done, in every variant a block has a discrepancy record if and
\* only if the row that created it carried a provided amount, overtime minutes or
\* night minutes; each delta of the record is computed minus provided for a quantity
\* that was provided, and absent for one that was not.
C16_DiscrepancyRecords ==
    phase = "done" =>
        \A i \in DOMAIN blocks :
            /\ Carried(CreatingRow(blocks[i])) <=> DiscrepanciesOf(blocks[i]) # {}
            /\ \A m \in DiscrepanciesOf(blocks[i]) :
                  /\ rows_discr[m].DELTA_TOTALE_EUR
                        = Signed(DetailOf(blocks[i]).TOTALE_BLOCCO_EUR,
                                 CreatingRow(blocks[i]).importo)
                  /\ rows_discr[m].DELTA_EXTRA_MIN
                        = Signed(DetailOf(blocks[i]).EXTRA_MIN,
                                 CreatingRow(blocks[i]).ore_extra)
                  /\ rows_discr[m].DELTA_NOTTE_MIN
                        = Signed(DetailOf(blocks[i]).NOTTE_MIN,
                                 CreatingRow(blocks[i]).notturno)

\* the row that created block b carried a provided amount equal to the computed total,
\* and no provided minutes that differ from the computed ones
EqualProvided(b) ==
    /\ CreatingRow(b).importo # NaN
    /\ Signed(DetailOf(b).TOTALE_BLOCCO_EUR, CreatingRow(b).importo) = Num(0)
    /\ Signed(DetailOf(b).EXTRA_MIN, CreatingRow(b).ore_extra) \in {None, Num(0)}
    /\ Signed(DetailOf(b).NOTTE_MIN, CreatingRow(b).notturno) \in {None, Num(0)}

\* C17: when a run of Veratour or Alpitour is done, a block computed without an error
\* whose creating row carried a provided amount equal to the computed total has one
\* discrepancy record, which shows the two equal amounts and a delta of 0.00.
C17_ZeroDeltaRecord ==
    phase = "done" /\ variant \in {"veratour", "alpitour"} =>
        \A i \in DOMAIN blocks :
            blocks[i].errore = "" /\ EqualProvided(blocks[i]) =>
                /\ Cardinality(DiscrepanciesOf(blocks[i])) = 1
                /\ \A m \in DiscrepanciesOf(blocks[i]) :
                      /\ rows_discr[m].TOTALE_FILE_EUR = Num(rows_discr[m].TOTALE_CALC_EUR)
                      /\ rows_discr[m].DELTA_TOTALE_EUR = Num(0)

\* a block with provided 100.00 and computed 100.00, and its record with delta 0.00
C17_Provided100Computed100 ==
    /\ phase = "done"
    /\ \E i \in DOMAIN blocks :
          /\ EqualProvided(blocks[i])
          /\ DetailOf(blocks[i]).TOTALE_BLOCCO_EUR = 100 * EUR
          /\ \E m \in DiscrepanciesOf(blocks[i]) :
                /\ rows_discr[m].TOTALE_FILE_EUR = Num(100 * EUR)
                /\ rows_discr[m].DELTA_TOTALE_EUR = Num(0)

\* C17 as stated: such a block produces no discrepancy record
C17_NoRecordWhenEqual ==
    phase = "done" =>
        \A i \in DOMAIN blocks :
            EqualProvided(blocks[i]) => DiscrepanciesOf(blocks[i]) = {}

\* the half of the month of a record of rows_detail, by the day of its date
Half(rec) == IF date_of(rec.DATA) <= 15 THEN "1-15" ELSE "16-31"

\* the rows of totals_df for the halves of a month, and the row of the month
HalfRows == SelectSeq(totals_df, LAMBDA t : t.PERIODO # "MESE")
MonthRows == SelectSeq(totals_df, LAMBDA t : t.PERIODO = "MESE")

\* the records of rows_detail counted in the row t of totals_df
CountedIn(t) ==
    SelectSeq(detail, LAMBDA rec : Half(rec) = t.PERIODO
                                   /\ groupby_cols(variant, rec)[1] = t.group[1])

TotalColumns ==
    {<<"TOT_TURNO_EUR", "TURNO_EUR">>, <<"TOT_EXTRA_MIN", "EXTRA_MIN">>,
     <<"TOT_EXTRA_EUR", "EXTRA_EUR">>, <<"TOT_NOTTE_MIN", "NOTTE_MIN">>,
     <<"TOT_NOTTE_EUR", "NOTTE_EUR">>, <<"TOT_TOTALE_EUR", "TOTALE_BLOCCO_EUR">>}

\* C18: when a run is done, every record of the detail is counted in exactly one row
\* of a half of the month, the row of the half its day falls in (day <= 15, day >= 16),
\* each such row sums the records counted in it, and for each summed column the one
\* row of the month equals the sum of the rows of the halves and the sum over all
\* records of the detail.
C18_TotalsPartition ==
    phase = "done" /\ detail # << >> =>
        /\ \A i \in DOMAIN detail :
              Cardinality({n \in DOMAIN HalfRows :
                              /\ HalfRows[n].PERIODO = Half(detail[i])
                              /\ HalfRows[n].group[1]
                                    = groupby_cols(variant, detail[i])[1]}) = 1
        /\ \A n \in DOMAIN HalfRows :
              /\ HalfRows[n].PERIODO \in {"1-15", "16-31"}
              /\ CountedIn(HalfRows[n]) # << >>
              /\ \A c \in TotalColumns :
                    HalfRows[n][c[1]] = sum(CountedIn(HalfRows[n]), c[2])
        /\ Len(MonthRows) = 1
        /\ \A c \in TotalColumns :
              /\ MonthRows[1][c[1]] = sum(HalfRows, c[1])
              /\ MonthRows[1][c[1]] = sum(detail, c[2])

\* a run with records on the 15th and on the 16th, overtime in both halves, and a
\* month of more than either half
C18_BothHalves ==
    /\ phase = "done"
    /\ \E i, j \in DOMAIN detail : date_of(detail[i].DATA) = 15
                                   /\ date_of(detail[j].DATA) = 16
    /\ \E n, m \in DOMAIN HalfRows :
          /\ HalfRows[n].PERIODO = "1-15" /\ HalfRows[m].PERIODO = "16-31"
          /\ HalfRows[n].TOT_EXTRA_MIN > 0 /\ HalfRows[m].TOT_EXTRA_MIN > 0
          /\ MonthRows[1].TOT_TOTALE_EUR > HalfRows[n].TOT_TOTALE_EUR
          /\ MonthRows[1].TOT_TOTALE_EUR > HalfRows[m].TOT_TOTALE_EUR

\* the difference the variant clamps at zero, for a record with an anchor departure:
\* Veratour the anchor minus the end of the shift, Alpitour the end of the 30 minutes
\* after the anchor minus the end of the shift, Aliservice the anchor minus the end of
\* the three hours from the start, Rusconi the actual minus the scheduled departure
RawDifference(rec) ==
    CASE variant = "veratour" -> rec.ATD_SCELTO - BlockOf(rec).end_dt
      [] variant = "alpitour" -> rec.ATD_SCELTO + 30 - BlockOf(rec).end_dt
      [] variant = "aliservice" -> rec.ATD_SCELTO - (BlockOf(rec).start_dt + 3 * 60)
      [] OTHER -> rec.ATD_SCELTO - (rec.INIZIO_DT + 150)

NonNegative(rec) ==
    /\ rec.EXTRA_MIN >= 0 /\ rec.NOTTE_MIN >= 0 /\ rec.TURNO_EUR >= 0
    /\ rec.EXTRA_EUR >= 0 /\ rec.NOTTE_EUR >= 0 /\ rec.TOTALE_BLOCCO_EUR >= 0

\* C19: when a run is done, the overtime minutes, night minutes, base amount, overtime
\* amount, night amount and total of every record are non-negative, and a record
\* without an anchor departure, or whose raw difference under the rule of its variant
\* is not positive, has overtime of exactly zero minutes and zero euro.
C19_NonNegativeClamped ==
    phase = "done" =>
        \A n \in DOMAIN detail :
            /\ NonNegative(detail[n])
            /\ (detail[n].ATD_SCELTO = NaT \/ BlockOf(detail[n]).start_dt = NaT
                   \/ RawDifference(detail[n]) <= 0)
                  => detail[n].EXTRA_MIN = 0 /\ detail[n].EXTRA_EUR = 0

\* an Alpitour record whose anchor and its 30 minutes end before the end of the
\* shift: a negative raw difference, and overtime of zero
C19_NegativeRawDifference ==
    /\ phase = "done" /\ variant = "alpitour"
    /\ \E n \in DOMAIN detail :
          /\ detail[n].ERRORE = "" /\ detail[n].ATD_SCELTO # NaT
          /\ RawDifference(detail[n]) < 0
          /\ detail[n].EXTRA_MIN = 0 /\ detail[n].TOTALE_BLOCCO_EUR > 0

\* C19 as stated: an anchor departure not later than the end of the shift gives
\* overtime of zero
C19_ZeroWhenAnchorNotLater ==
    phase = "done" =>
        \A n \in DOMAIN detail :
            /\ NonNegative(detail[n])
            /\ (detail[n].ATD_SCELTO # NaT /\ BlockOf(detail[n]).end_dt # NaT
                   /\ detail[n].ATD_SCELTO <= BlockOf(detail[n]).end_dt)
                  => detail[n].EXTRA_MIN = 0

\* C20: in a run of Rusconi, once the rows are aggregated, there are as many blocks as
\* rows read, every block was made by one row and holds the departures of that row
\* only, and no two blocks come from the same row.
C20_OneBlockPerRow ==
    variant = "rusconi" /\ phase \in {"compute", "totals", "done"} =>
        /\ Len(blocks) = global_order
        /\ \A i \in DOMAIN blocks :
              /\ blocks[i].rows = <<blocks[i].first_source.original_order>>
              /\ Len(blocks[i].atd_list) <= 1 /\ Len(blocks[i].std_list) <= 1
        /\ \A i, j \in DOMAIN blocks :
              blocks[i].first_source.original_order
                 = blocks[j].first_source.original_order => i = j

\* two rows of Rusconi with the same date, airport and shift and different actual
\* departures, each in its own block
C20_IdenticalRowsApart ==
    /\ variant = "rusconi" /\ phase = "done"
    /\ \E i, j \in DOMAIN blocks :
          /\ i # j
          /\ blocks[i].date = blocks[j].date /\ blocks[i].apt = blocks[j].apt
          /\ blocks[i].turno_norm = blocks[j].turno_norm
          /\ blocks[i].tour_operator = blocks[j].tour_operator
          /\ Len(blocks[i].atd_list) = 1 /\ Len(blocks[j].atd_list) = 1
          /\ blocks[i].atd_list # blocks[j].atd_list

\* the least element of a sequence of ordinals
MinOf(xs) == CHOOSE m \in Elems(xs) : \A x \in Elems(xs) : m <= x

\* the row read with global ordinal n
SeenRow(n) == seen[CHOOSE k \in DOMAIN seen : seen[k].global_order = n]

\* the position within its sheet of the row read with global ordinal n
RowIndex(n) ==
    Cardinality({k \in DOMAIN seen : /\ seen[k].sheet = SeenRow(n).sheet
                                     /\ seen[k].global_order < n})

\* C21: at every moment of a run, the provenance of every block (sheet, row of the
\* sheet, global ordinal) is that of the first row merged into it, whose ordinal is the
\* least of the rows merged into it, and in Veratour and Alpitour the provided values
\* of the block are those read from the cells of that row: a merge of a later row
\* changes none of them.
C21_FirstRowProvenance ==
    \A i \in DOMAIN blocks :
        LET b == blocks[i]
            first == b.rows[1]
        IN  /\ first = MinOf(b.rows)
            /\ b.first_source.original_order = first
            /\ b.first_source.sheet = SeenRow(first).sheet
            /\ b.first_source.row_index = RowIndex(first)
            /\ variant \in {"veratour", "alpitour"} =>
                  /\ b.provided_importo = parse_eur(SeenRow(first).cells.importo)
                  /\ b.provided_extra_min
                        = parse_minutes_from_cell(SeenRow(first).cells.ore_extra)
                  /\ b.provided_night_min
                        = parse_minutes_from_cell(SeenRow(first).cells.notturno)

\* a block of two rows or more, the first with a provided amount and a later one with
\* another, the block holding the amount of the first
C21_LaterRowWithOtherAmount ==
    \E i \in DOMAIN blocks :
        /\ Len(blocks[i].rows) >= 2
        /\ SeenRow(blocks[i].rows[1]).cells.importo = Cell("float", 95 * EUR)
        /\ SeenRow(blocks[i].rows[2]).cells.importo = Cell("float", 100 * EUR)
        /\ blocks[i].provided_importo = Num(95 * EUR)
        /\ blocks[i].first_source.original_order = blocks[i].rows[1]

\* C22: in a run of Aliservice no step sets the end of a block to an earlier moment
\* than it had before the step, a block without an end counting as earlier than any.
C22_EndNeverRegresses ==
    [][variant = "aliservice" =>
          \A i \in DOMAIN blocks :
              i \in DOMAIN blocks' /\ blocks'[i].end_dt >= blocks[i].end_dt]_vars

\* an Aliservice block whose first row departed at 12:30 and whose second at 11:30,
\* its end still 12:30
C22_EarlierDepartureMerged ==
    /\ variant = "aliservice"
    /\ \E i \in DOMAIN blocks :
          /\ Len(blocks[i].rows) >= 2
          /\ SeenRow(blocks[i].rows[1]).cells.atd = <<12, 30>>
          /\ SeenRow(blocks[i].rows[2]).cells.atd = <<11, 30>>
          /\ blocks[i].end_dt = blocks[i].date + 12 * 60 + 30

\* the row of sdf for the row read with global ordinal n, in the sheet being read
SdfRows(n) == {i \in DOMAIN sdf : sdf[i].global_order = n}

\* the moment of the check-in of a row read
Checkin(row) == row.date + row.cells.convocazione[1] * 60 + row.cells.convocazione[2]

\* C23: in a run of Aliservice, once a sheet is prepared and while its rows are
\* iterated, a row with a check-in time and no shift text, its own or filled, is in
\* the row loop with start = check-in - 15 minutes and end = start + 3 hours, and a
\* row with a shift text of its own is in the row loop with the interval of its text.
C23_ShiftFromCheckin ==
    variant = "aliservice" =>
        \A k \in DOMAIN seen :
            seen[k].sheet = sheet /\ phase \in {"read", "rows", "aborted"} =>
                /\ (seen[k].turno_ffill = NaN /\ seen[k].cells.convocazione # NaN) =>
                      /\ phase = "rows"
                      /\ \E i \in SdfRows(seen[k].global_order) :
                            /\ sdf[i].start_dt = Checkin(seen[k]) - 15
                            /\ sdf[i].end_dt = sdf[i].start_dt + 3 * 60
                /\ (seen[k].turno # NaN /\ seen[k].interpretable /\ phase = "rows") =>
                      \E i \in SdfRows(seen[k].global_order) :
                          /\ sdf[i].start_dt = to_dt_replace(seen[k].date, sdf[i].start_str)
                          /\ sdf[i].start_str
                                = parse_turno_aliservice(seen[k].turno).start_str

\* the start, the end and the normalized text a call of parse_turno returned
Outcome(call) == <<call.parsed.start_str, call.parsed.end_str, call.parsed.turno_norm>>

\* the times of the call are a start and an end within the day
ValidTimes(call) ==
    /\ call.times[1] <= 23 /\ call.times[2] <= 59
    /\ call.times[3] <= 23 /\ call.times[4] <= 59

\* C24: in every variant, two calls of parse_turno on the same valid start and end,
\* written HH:MM-HH:MM with any of hyphen, en dash, em dash between the times and any
\* of colon, period, semicolon between hours and minutes, return the same start, the
\* same end and the same normalized text, and these are the times written.
C24_SeparatorInvariance ==
    \A i, j \in DOMAIN calls :
        (calls[i].shape = "full" /\ calls[j].shape = "full"
            /\ ValidTimes(calls[i]) /\ calls[i].times = calls[j].times) =>
            /\ Outcome(calls[i]) = Outcome(calls[j])
            /\ calls[i].parsed.start_str
                  = Fmt02(calls[i].times[1]) \o <<":">> \o Fmt02(calls[i].times[2])
            /\ calls[i].parsed.end_str
                  = Fmt02(calls[i].times[3]) \o <<":">> \o Fmt02(calls[i].times[4])

\* a component of the times of the call is out of bounds: an hour above 47 or a minute
\* above 59
OutOfBounds(call) ==
    call.times[1] > 47 \/ call.times[3] > 47 \/ call.times[2] > 59 \/ call.times[4] > 59

\* C25: in every variant a call of parse_turno on a range written HH:MM-HH:MM with an
\* hour above 47 or a minute above 59 returns neither a start nor an end.
C25_BoundsRejected ==
    \A i \in DOMAIN calls :
        (calls[i].shape = "full" /\ calls[i].hm \in {":", "."} /\ OutOfBounds(calls[i])) =>
            calls[i].parsed.start_str = None /\ calls[i].parsed.end_str = None

\* the times of the call, as texts HH:MM
StartWritten(call) == Fmt02(call.times[1]) \o <<":">> \o Fmt02(call.times[2])
EndWritten(call) == Fmt02(call.times[3]) \o <<":">> \o Fmt02(call.times[4])

\* C26: in Aliservice and Rusconi a call of parse_turno on a text HH-HH:MM returns the
\* start HH:00 and the end HH:MM, and on a text HH:MM-HH the start HH:MM and the end
\* HH:00, for hours of one digit and of two ("8-11:30" gives 08:00 and 11:30).
C26_ShapeSelection ==
    variant \in {"aliservice", "rusconi"} =>
        \A i \in DOMAIN calls :
            (calls[i].shape \in {"end", "start"} /\ calls[i].hm \in {":", "."}) =>
                /\ calls[i].parsed.start_str = StartWritten(calls[i])
                /\ calls[i].parsed.end_str = EndWritten(calls[i])

\* C27: every call of RoundingPolicy.apply with a step that is not positive returns
\* the minutes it was given, in each of the modes NONE, FLOOR, CEIL and NEAREST.
C27_NonPositiveStep ==
    \A i \in DOMAIN calls :
        calls[i].policy.step_min <= 0 => calls[i].returned = calls[i].minutes

\* 7 minutes under CEIL with a step of 0 returned as 7, and 8 minutes as 8
C27_CeilStepZero ==
    /\ Len(calls) = 2
    /\ calls[1].policy = [mode |-> "CEIL", step_min |-> 0]
    /\ calls[1].minutes = 7 /\ calls[1].returned = 7
    /\ calls[2].minutes = 8 /\ calls[2].returned = 8

\* the minutes from the clock time of the scheduled departure of a row to the clock
\* time of its actual departure, going forward round the clock
ClockDelay(cells) ==
    (Timedelta(cells.atd) - Timedelta(cells.std) + MinutesPerDay) % MinutesPerDay

\* C28: when a run of Rusconi is done, a block whose row has an actual departure d
\* minutes after its scheduled departure on the clock, 0 < d < 720, has overtime of d
\* minutes, wherever the start of the shift lies.
C28_OvertimeIsDelay ==
    variant = "rusconi" /\ phase = "done" =>
        \A i \in DOMAIN blocks :
            LET cells == CreatingRow(blocks[i])
            IN  (cells.atd # NaN /\ cells.std # NaN
                    /\ ClockDelay(cells) > 0 /\ ClockDelay(cells) < 720) =>
                    DetailOf(blocks[i]).EXTRA_MIN = ClockDelay(cells)

\* C29: at every moment of a run, every actual and every scheduled departure in the
\* lists of a block with a start is at or after the start of the block and less than
\* 24 hours after it.
C29_DeparturesWithinADay ==
    \A i \in DOMAIN blocks :
        blocks[i].start_dt # NaT =>
            \A x \in Elems(blocks[i].atd_list) \cup Elems(blocks[i].std_list) :
                blocks[i].start_dt <= x /\ x < blocks[i].start_dt + MinutesPerDay

\* the minutes of the interval whose clock time lies in the window of the variant,
\* from 23:00 to 05:00 in Veratour and to 06:00 in Alpitour
MinutesInWindow(interval_start, interval_end) ==
    IF interval_end <= interval_start THEN 0
    ELSE Cardinality({t \in interval_start..(interval_end - 1) :
            hour_of(t) >= 23 \/ hour_of(t) < (IF variant = "veratour" THEN 5 ELSE 6)})

\* C30: when a run of Veratour or Alpitour is done, the night minutes of every record
\* computed without an error are the minutes of the shift, and of the overtime after
\* it, whose clock time lies in the window of the night.
C30_SweepIsExact ==
    phase = "done" /\ variant \in {"veratour", "alpitour"} =>
        \A n \in DOMAIN detail :
            detail[n].ERRORE = "" =>
                detail[n].NOTTE_MIN
                   = MinutesInWindow(detail[n].INIZIO_DT, detail[n].FINE_DT)
                     + MinutesInWindow(detail[n].FINE_DT,
                                       detail[n].FINE_DT + detail[n].EXTRA_MIN)
====
